---- MODULE Spec2Model ----
(***************************************************************************)
(* A model of jettison (src/src/jettison.js, src/src/polyfill.js): the     *)
(* integer buffer polyfill, the stream view, the codecs, Field, Definition *)
(* and Schema.                                                             *)
(*                                                                         *)
(* JavaScript numbers that hold integers are kept as a pair (hi, lo) with  *)
(* value hi * 65536 + lo and 0 <= lo < 65536, because the 32-bit values    *)
(* the code handles (2^32 - 1, 2^32, -2^31 - 1) do not fit the integers of *)
(* the model checker.  Byte offsets, lengths and bytes are plain integers. *)
(* A thrown exception is the record [error |-> name].                      *)
(***************************************************************************)
EXTENDS Integers, Sequences, FiniteSets, TLC

VARIABLES
  definitions,       \* Schema.definitions: key -> Definition (index in heap)
  definitionsById,   \* Schema.definitionsById: id -> Definition (index in heap)
  nextDefinitionId,  \* Schema.nextDefinitionId
  heap,              \* the Definition objects created so far, in creation order
  defineErrors,      \* number of Schema.define calls that threw
  ret,               \* what the last call returned or threw
  standalone,        \* the Definition jettison.define(fields) returned
  cx                 \* the codec call under test and its stream view

vars ==
  <<definitions, definitionsById, nextDefinitionId, heap, defineErrors, ret,
    standalone, cx>>

(***************************************************************************)
(* JavaScript values.                                                      *)
(***************************************************************************)
Undefined == [t |-> "undefined"]
Num(hi, lo) == [t |-> "number", hi |-> hi, lo |-> lo]
Bool(b) == [t |-> "boolean", v |-> b]
Arr(s) == [t |-> "array", v |-> s]
Str(s) == [t |-> "string", v |-> s]

\* The number with the integer value n, |n| < 2^31.
N(n) == Num(n \div 65536, n % 65536)
\* The integer value of a number that fits the model checker's integers.
ToInt(a) == a.hi * 65536 + a.lo

IsNumber(v) == v.t = "number"
IsError(r) == "error" \in DOMAIN r
Throw(name) == [error |-> name]

\* `const b = v; return Body(b)`: v is evaluated first, and once.
Bind(v, Body(_)) == IF v = v THEN Body(v) ELSE Body(v)
\* A call that may throw, then the code after it: the throw propagates.
Try(r, Body(_)) == IF IsError(r) THEN r ELSE Body(r)

NumLess(a, b) == a.hi < b.hi \/ (a.hi = b.hi /\ a.lo < b.lo)
NumAdd(a, b) ==
  LET lo == a.lo + b.lo
  IN  Num(a.hi + b.hi + lo \div 65536, lo % 65536)
NumSub(a, b) ==
  LET lo == a.lo - b.lo
  IN  Num(a.hi - b.hi + lo \div 65536, lo % 65536)
NumNeg(a) == NumSub(N(0), a)
\* k * a for a small plain integer k (a byte, or 256).
NumScale(k, a) ==
  LET lo == k * a.lo
  IN  Num(k * a.hi + lo \div 65536, lo % 65536)
\* Math.pow(2, k), 0 <= k <= 32.
Pow2(k) == IF k < 16 THEN Num(0, 2 ^ k) ELSE Num(2 ^ (k - 16), 0)

\* ToInt32 of ECMAScript: the value modulo 2^32, read as a signed 32-bit integer.
ToInt32(a) == Num(((a.hi + 32768) % 65536) - 32768, a.lo)

\* Bitwise and of two naturals below 16, and of two naturals below 2^bits.
And4(x, y) ==
  (x % 2) * (y % 2) + 2 * (((x \div 2) % 2) * ((y \div 2) % 2))
  + 4 * (((x \div 4) % 2) * ((y \div 4) % 2)) + 8 * ((x \div 8) * (y \div 8))
RECURSIVE And16(_, _, _)
And16(x, y, bits) ==
  IF bits = 0 THEN 0
  ELSE And4(x % 16, y % 16) + 16 * And16(x \div 16, y \div 16, bits - 4)

\* a & b: both operands through ToInt32, the result a signed 32-bit integer.
BitAnd(a, b) ==
  ToInt32(Num(And16(a.hi % 65536, b.hi % 65536, 16), And16(a.lo, b.lo, 16)))

\* a >> k for 0 <= k < 16: ToInt32, then an arithmetic (sign-propagating) shift.
ShiftRight(a, k) ==
  LET x == ToInt32(a)
  IN  Num(x.hi \div (2 ^ k), ((x.hi % (2 ^ k)) * (2 ^ (16 - k))) + x.lo \div (2 ^ k))


(***************************************************************************)
(* polyfill.js: IntegerPolyfill.                                           *)
(***************************************************************************)
IntegerPolyfill(byteLength, signed) ==
  [byteLength |-> byteLength,
   bitLength |-> byteLength * 8,
   signed |-> signed,
   signBit |-> IF signed THEN Pow2(byteLength * 8 - 1) ELSE Undefined,
   minValue |-> IF signed THEN NumNeg(Pow2(byteLength * 8 - 1)) ELSE N(0),
   maxValue |-> IF signed THEN NumSub(Pow2(byteLength * 8 - 1), N(1))
                ELSE NumSub(Pow2(byteLength * 8), N(1))]

\* The loop of IntegerPolyfill.get: value += bytes[byteOffset + i] * scale.
RECURSIVE IntegerGetLoop(_, _, _, _, _, _, _)
IntegerGetLoop(bytes, byteOffset, i, increment, stop, value, scale) ==
  IF i = stop THEN value
  ELSE IntegerGetLoop(bytes, byteOffset, i + increment, increment, stop,
                      NumAdd(value, NumScale(bytes[byteOffset + i + 1], scale)),
                      NumScale(256, scale))

\* IntegerPolyfill.get without the sign correction of lines 361-364.
IntegerPolyfill_get_unsigned(p, bytes, byteOffset, littleEndian) ==
  IntegerGetLoop(bytes, byteOffset,
                 IF littleEndian THEN 0 ELSE p.byteLength - 1,
                 IF littleEndian THEN 1 ELSE -1,
                 IF littleEndian THEN p.byteLength ELSE -1, N(0), N(1))

IntegerPolyfill_get(p, bytes, byteOffset, littleEndian) ==
  LET i == IF littleEndian THEN 0 ELSE p.byteLength - 1
      increment == IF littleEndian THEN 1 ELSE -1
      stop == i + (increment * p.byteLength)
  IN  Bind(IntegerGetLoop(bytes, byteOffset, i, increment, stop, N(0), N(1)),
           LAMBDA value :
             IF p.signed /\ BitAnd(value, p.signBit) # N(0)
             THEN NumSub(value, Pow2(p.bitLength))
             ELSE value)

\* The loop of IntegerPolyfill.set: bytes[byteOffset + i] = value & 255; value >>= 8.
RECURSIVE IntegerSetLoop(_, _, _, _, _, _)
IntegerSetLoop(bytes, byteOffset, i, increment, stop, value) ==
  IF i = stop THEN bytes
  ELSE IntegerSetLoop(
         [bytes EXCEPT ![byteOffset + i + 1] = ToInt(BitAnd(value, N(255)))],
         byteOffset, i + increment, increment, stop, ShiftRight(value, 8))

IntegerPolyfill_set(p, bytes, byteOffset, value, littleEndian) ==
  LET i == IF littleEndian THEN 0 ELSE p.byteLength - 1
      increment == IF littleEndian THEN 1 ELSE -1
      clamped == IF NumLess(value, p.minValue) THEN p.minValue
                 ELSE IF NumLess(p.maxValue, value) THEN p.maxValue
                 ELSE value
      stop == i + (increment * p.byteLength)
  IN  IntegerSetLoop(bytes, byteOffset, i, increment, stop, clamped)

(***************************************************************************)
(* polyfill.js: FloatPolyfill.  A floating point number is its class, its  *)
(* sign and, when it is finite and not 0, the set of the exponents k of    *)
(* the powers 2^k that add up to its magnitude.  The significand the code  *)
(* computes is such a set too; its bits below 2^0 are the fraction that    *)
(* the & operator drops.                                                   *)
(***************************************************************************)
Float(class, sign, bits) == [t |-> "float", class |-> class, sign |-> sign, bits |-> bits]
NaN == Float("nan", 0, {})
Infinity(sign) == Float("infinity", sign, {})
Zero(sign) == Float("zero", sign, {})

\* The exponents of the powers of two in a natural number below 2^31.
BitsOf(n) == {k \in 0..30 : (n \div (2 ^ k)) % 2 = 1}
Shift(bits, n) == {k + n : k \in bits}
MaxOf(bits) == CHOOSE k \in bits : \A m \in bits : m <= k
Weight(bits, k, w) == IF k \in bits THEN w ELSE 0
\* (x / 256^j) & 0xff
ByteAt(bits, j) ==
  Weight(bits, 8 * j, 1) + Weight(bits, 8 * j + 1, 2) + Weight(bits, 8 * j + 2, 4)
  + Weight(bits, 8 * j + 3, 8) + Weight(bits, 8 * j + 4, 16)
  + Weight(bits, 8 * j + 5, 32) + Weight(bits, 8 * j + 6, 64)
  + Weight(bits, 8 * j + 7, 128)

\* The carry into place k of x + y: a place below k where both have a bit, and
\* one of them has a bit at every place between.
Carry(x, y, k) ==
  \E j \in x \cap y : j < k /\ \A m \in (j + 1)..(k - 1) : m \in x \cup y
\* x + y
AddBits(x, y) ==
  IF x \cup y = {} THEN {}
  ELSE {k \in (-MaxOf({-m : m \in x \cup y}))..(MaxOf(x \cup y) + 1) :
          ((k \in x) # (k \in y)) # Carry(x, y, k)}

\* A sum as a double holds it: 53 significant bits, rounded to nearest, ties to even.
Round53(bits) ==
  IF bits = {} THEN bits
  ELSE LET low == MaxOf(bits) - 52
           kept == {k \in bits : k >= low}
           rest == {k \in bits : k < low}
       IN  IF (low - 1) \in rest /\ (rest # {low - 1} \/ low \in kept)
           THEN AddBits(kept, {low})
           ELSE kept

FloatPolyfill(byteLength) ==
  [byteLength |-> byteLength,
   numSignificandBits |-> IF byteLength = 4 THEN 23 ELSE 52,
   numExponentBits |-> IF byteLength = 4 THEN 8 ELSE 11,
   exponentMax |-> IF byteLength = 4 THEN 255 ELSE 2047,
   exponentBias |-> IF byteLength = 4 THEN 127 ELSE 1023,
   \* Math.pow(2, -24) - Math.pow(2, -77) for float32, 0 for float64
   roundTo |-> IF byteLength = 4 THEN -77..-25 ELSE {}]

\* The byte of a float at place j from its most significant byte.
FloatByte(p, bytes, byteOffset, littleEndian, j) ==
  bytes[byteOffset + (IF littleEndian THEN p.byteLength - 1 - j ELSE j) + 1]

\* FloatPolyfill.get up to the fields: signed, exponent and significand as the
\* bytes hold them.  numExponentBits - 7 is 1 or 4, so the exponent loop runs once.
FloatFields(p, bytes, byteOffset, littleEndian) ==
  LET signedAndExponent == FloatByte(p, bytes, byteOffset, littleEndian, 0)
      remainingExponentBits == p.numExponentBits - 7 - 8
      exponent == (signedAndExponent % 128) * 256
                  + FloatByte(p, bytes, byteOffset, littleEndian, 1)
      rest == (p.numSignificandBits + remainingExponentBits) \div 8
  IN  [signed |-> signedAndExponent \div 128,
       exponent |-> exponent \div (2 ^ (-remainingExponentBits)),
       significand |->
         {k \in 0..(p.numSignificandBits - 1) :
            IF k >= 8 * rest
            THEN (k - 8 * rest) \in BitsOf(exponent % (2 ^ (-remainingExponentBits)))
            ELSE (k % 8) \in BitsOf(FloatByte(p, bytes, byteOffset, littleEndian,
                                             1 + rest - (k \div 8)))}]

\* FloatPolyfill.get reading every exponentMax pattern as an infinity.
FloatPolyfill_get_noNaN(p, bytes, byteOffset, littleEndian) ==
  Bind(FloatFields(p, bytes, byteOffset, littleEndian), LAMBDA f :
    IF f.exponent = 0
    THEN IF f.significand = {} THEN Zero(f.signed)
         ELSE Float("finite", f.signed,
                    Shift(f.significand, 1 - p.exponentBias - p.numSignificandBits))
    ELSE IF f.exponent = p.exponentMax
    THEN Infinity(f.signed)
    ELSE Float("finite", f.signed,
               Shift(f.significand \cup {p.numSignificandBits},
                     f.exponent - p.exponentBias - p.numSignificandBits)))

FloatPolyfill_get(p, bytes, byteOffset, littleEndian) ==
  Bind(FloatFields(p, bytes, byteOffset, littleEndian), LAMBDA f :
    IF f.exponent = 0
    THEN IF f.significand = {} THEN Zero(f.signed)  \* (signed ? -1 : 1) * 0 * ...
         ELSE Float("finite", f.signed,
                    Shift(f.significand, 1 - p.exponentBias - p.numSignificandBits))
    ELSE IF f.exponent = p.exponentMax
    THEN IF f.significand # {} THEN NaN ELSE Infinity(f.signed)
    ELSE Float("finite", f.signed,
               Shift(f.significand \cup {p.numSignificandBits},
                     f.exponent - p.exponentBias - p.numSignificandBits)))

\* The finite branch keeping the exponent it first found when the sum reaches
\* twice the coefficient.
FiniteParts_noCarry(p, value) ==
  LET exponent0 == MaxOf(value.bits)
      absValue == Round53(AddBits(value.bits,
                                  Shift(p.roundTo,
                                        IF exponent0 + p.exponentBias >= 1 THEN exponent0
                                        ELSE 1 - p.exponentBias)))
      exponent == exponent0
      biasedExponent == exponent + p.exponentBias
  IN  IF biasedExponent >= p.exponentMax
      THEN [signed |-> value.sign, biasedExponent |-> p.exponentMax, significand |-> {}]
      ELSE IF biasedExponent < 1
      THEN [signed |-> value.sign, biasedExponent |-> 0,
            significand |-> Shift(absValue, p.exponentBias - 1 + p.numSignificandBits)]
      ELSE [signed |-> value.sign, biasedExponent |-> biasedExponent,
            significand |-> Shift(absValue \ {exponent}, p.numSignificandBits - exponent)]

\* The last branch of FloatPolyfill.set, for a finite number that is not 0.
\* Math.floor(log2(absValue)) with the correction that follows it is the place
\* of the highest bit of absValue.
FiniteParts(p, value) ==
  LET exponent0 == MaxOf(value.bits)
      absValue == Round53(AddBits(value.bits,
                                  Shift(p.roundTo,
                                        IF exponent0 + p.exponentBias >= 1 THEN exponent0
                                        ELSE 1 - p.exponentBias)))
      exponent == IF MaxOf(absValue) >= exponent0 + 1 THEN exponent0 + 1 ELSE exponent0
      biasedExponent == exponent + p.exponentBias
  IN  IF biasedExponent >= p.exponentMax
      THEN [signed |-> value.sign, biasedExponent |-> p.exponentMax, significand |-> {}]
      ELSE IF biasedExponent < 1
      THEN [signed |-> value.sign, biasedExponent |-> 0,
            significand |-> Shift(absValue, p.exponentBias - 1 + p.numSignificandBits)]
      ELSE [signed |-> value.sign, biasedExponent |-> biasedExponent,
            significand |-> Shift(absValue \ {exponent}, p.numSignificandBits - exponent)]

\* The fields the platform's DataView.setFloat32 / setFloat64 writes for a finite
\* number that is not 0: the number rounded to the nearest that the format holds,
\* a tie to the one with an even significand (IEEE 754).
NativeFiniteParts(p, value) ==
  LET unit == (IF MaxOf(value.bits) > 1 - p.exponentBias THEN MaxOf(value.bits)
               ELSE 1 - p.exponentBias) - p.numSignificandBits
      kept == {k \in value.bits : k >= unit}
      rest == {k \in value.bits : k < unit}
      rounded == IF (unit - 1) \in rest /\ (rest # {unit - 1} \/ unit \in kept)
                 THEN AddBits(kept, {unit})
                 ELSE kept
  IN  IF rounded = {}
      THEN [signed |-> value.sign, biasedExponent |-> 0, significand |-> {}]
      ELSE IF MaxOf(rounded) > p.exponentBias
      THEN [signed |-> value.sign, biasedExponent |-> p.exponentMax, significand |-> {}]
      ELSE IF MaxOf(rounded) < 1 - p.exponentBias
      THEN [signed |-> value.sign, biasedExponent |-> 0,
            significand |-> Shift(rounded, p.exponentBias - 1 + p.numSignificandBits)]
      ELSE [signed |-> value.sign, biasedExponent |-> MaxOf(rounded) + p.exponentBias,
            significand |-> Shift(rounded \ {MaxOf(rounded)},
                                  p.numSignificandBits - MaxOf(rounded))]

\* FloatPolyfill.set up to the call of _floatPartsToByteArray.
FloatParts(p, value) ==
  CASE value.class = "nan" ->
         [signed |-> 0, biasedExponent |-> p.exponentMax,
          significand |-> {p.numSignificandBits - 1}]
    [] value.class = "infinity" ->
         [signed |-> value.sign, biasedExponent |-> p.exponentMax, significand |-> {}]
    [] value.class = "zero" ->
         [signed |-> value.sign, biasedExponent |-> 0, significand |-> {}]
    [] value.class = "finite" -> FiniteParts(p, value)

\* The bytes _floatPartsToByteArray writes, in the order it writes them: the whole
\* bytes of the significand, then (exponent << remainingSignificandBits) |
\* significand in two bytes, the sign in the top bit of the last.
FloatLowBytes(p, signed, exponent, significand) ==
  LET whole == p.numSignificandBits \div 8
      remainingSignificandBits == p.numSignificandBits - 8 * whole
      packed == Shift(BitsOf(exponent), remainingSignificandBits)
                \cup {k \in 0..31 : (k + 8 * whole) \in significand}
  IN  [j \in 1..p.byteLength |->
         IF j <= whole THEN ByteAt(significand, j - 1)
         ELSE IF j < p.byteLength THEN ByteAt(packed, j - 1 - whole)
         ELSE IF signed = 1 /\ 15 \notin packed THEN ByteAt(packed, 1) + 128
         ELSE ByteAt(packed, 1)]

\* _floatPartsToByteArray writing the bytes low byte first whatever the order asked.
FloatPolyfill_floatPartsToByteArray_lowFirst(p, bytes, byteOffset, signed, exponent, significand, littleEndian) ==
  [n \in 1..Len(bytes) |->
     IF n - byteOffset \in 1..p.byteLength
     THEN FloatLowBytes(p, signed, exponent, significand)[n - byteOffset]
     ELSE bytes[n]]

FloatPolyfill_floatPartsToByteArray(p, bytes, byteOffset, signed, exponent, significand, littleEndian) ==
  [n \in 1..Len(bytes) |->
     IF n - byteOffset \in 1..p.byteLength
     THEN FloatLowBytes(p, signed, exponent, significand)[
            IF littleEndian THEN n - byteOffset ELSE p.byteLength + 1 - (n - byteOffset)]
     ELSE bytes[n]]

FloatPolyfill_set(p, bytes, byteOffset, value, littleEndian) ==
  Bind(FloatParts(p, value), LAMBDA parts :
    FloatPolyfill_floatPartsToByteArray(p, bytes, byteOffset, parts.signed,
                                        parts.biasedExponent, parts.significand,
                                        littleEndian))

(***************************************************************************)
(* polyfill.js: ArrayBufferPolyfill and DataViewPolyfill.  A data view is  *)
(* its buffer's bytes; byteOffset is 0 and byteLength the buffer's length, *)
(* as StreamView.create builds it.                                         *)
(***************************************************************************)
ArrayBufferPolyfill(length) == [i \in 1..length |-> 0]

DataView_validateRange(bytes, byteOffset, byteLength) ==
  IF byteOffset < 0 THEN Throw("RangeError")
  ELSE IF byteOffset + byteLength > Len(bytes) THEN Throw("RangeError")
  ELSE [ok |-> TRUE]

\* _polyfills: the polyfill behind each DataView accessor name.
DataView_polyfills(name) ==
  IF name = "Float32" THEN FloatPolyfill(4)
  ELSE IF name = "Float64" THEN FloatPolyfill(8)
  ELSE
  IntegerPolyfill(CASE name \in {"Int8", "Uint8"} -> 1
                    [] name \in {"Int16", "Uint16"} -> 2
                    [] name \in {"Int32", "Uint32"} -> 4,
                  name \in {"Int8", "Int16", "Int32"})

\* DataViewPolyfill._get through getFloat32 .. getUint32: the value, or a throw.
DataView_get(bytes, name, byteOffset, littleEndian) ==
  Bind(DataView_polyfills(name), LAMBDA p :
    Try(DataView_validateRange(bytes, byteOffset, p.byteLength), LAMBDA range :
      [value |-> IF "exponentBias" \in DOMAIN p
                 THEN FloatPolyfill_get(p, bytes, byteOffset, littleEndian)
                 ELSE IntegerPolyfill_get(p, bytes, byteOffset, littleEndian)]))

\* DataViewPolyfill._set through setFloat32 .. setUint32: the bytes, or a throw.
DataView_set(bytes, name, byteOffset, value, littleEndian) ==
  Bind(DataView_polyfills(name), LAMBDA p :
    Try(DataView_validateRange(bytes, byteOffset, p.byteLength), LAMBDA range :
      [bytes |-> IF "exponentBias" \in DOMAIN p
                 THEN FloatPolyfill_set(p, bytes, byteOffset, value, littleEndian)
                 ELSE IntegerPolyfill_set(p, bytes, byteOffset, value, littleEndian)]))

(***************************************************************************)
(* jettison.js: StreamView.  A stream view is its buffer's bytes and the   *)
(* cursor byteOffset.                                                      *)
(***************************************************************************)
StreamView_create(byteLength) ==
  [bytes |-> ArrayBufferPolyfill(byteLength), byteOffset |-> 0]

Advance(streamView, bytes, byteLength) ==
  [bytes |-> bytes, byteOffset |-> streamView.byteOffset + byteLength]

(***************************************************************************)
(* jettison.js: Codec, BooleanCodec, IntegerCodec.  get returns            *)
(* [value, streamView] and set the stream view, or either one a throw.     *)
(***************************************************************************)
Codec_get(codec, streamView, littleEndian) ==
  Try(DataView_get(streamView.bytes, codec.getter, streamView.byteOffset,
                   littleEndian),
      LAMBDA r : [value |-> r.value,
                  streamView |-> Advance(streamView, streamView.bytes,
                                         codec.byteLength)])

Codec_set(codec, streamView, value, littleEndian) ==
  Try(DataView_set(streamView.bytes, codec.setter, streamView.byteOffset,
                   value, littleEndian),
      LAMBDA r : Advance(streamView, r.bytes, codec.byteLength))

\* What JavaScript takes for true in a condition.
Truthy(v) ==
  CASE v.t = "undefined" -> FALSE
    [] v.t = "boolean" -> v.v
    [] v.t = "number" -> v # N(0)
    [] v.t = "string" -> v.v # <<>>
    [] v.t = "array" -> TRUE

BooleanCodec == [kind |-> "boolean", byteLength |-> 1, getter |-> "Uint8", setter |-> "Uint8"]

BooleanCodec_get(codec, streamView, littleEndian) ==
  Try(Codec_get(codec, streamView, littleEndian),
      LAMBDA r : [value |-> Bool(Truthy(r.value)), streamView |-> r.streamView])

BooleanCodec_set(codec, streamView, value, littleEndian) ==
  Codec_set(codec, streamView, IF Truthy(value) THEN N(1) ELSE N(0), littleEndian)

IntegerCodec(byteLength, signed) ==
  LET bitLength == byteLength * 8
      name == IF bitLength = 8 THEN "8" ELSE IF bitLength = 16 THEN "16" ELSE "32"
  IN  [kind |-> "integer",
       byteLength |-> byteLength,
       getter |-> IF signed THEN "Int" \o name ELSE "Uint" \o name,
       setter |-> IF signed THEN "Int" \o name ELSE "Uint" \o name,
       minValue |-> IF signed THEN NumNeg(Pow2(bitLength - 1)) ELSE N(0),
       maxValue |-> IF signed THEN NumSub(Pow2(bitLength - 1), N(1))
                    ELSE NumSub(Pow2(bitLength), N(1))]

\* IntegerCodec.set with the upper clamp taking the wrong bound.
IntegerCodec_set_wrongBound(codec, streamView, value, littleEndian) ==
  Codec_set(codec, streamView,
            IF NumLess(value, codec.minValue) THEN codec.minValue
            ELSE IF NumLess(codec.maxValue, value) THEN codec.minValue
            ELSE value,
            littleEndian)

IntegerCodec_set(codec, streamView, value, littleEndian) ==
  LET clamped == IF NumLess(value, codec.minValue) THEN codec.minValue
                 ELSE IF NumLess(codec.maxValue, value) THEN codec.maxValue
                 ELSE value
  IN  Codec_set(codec, streamView, clamped, littleEndian)

uint8 == IntegerCodec(1, FALSE)
uint32 == IntegerCodec(4, FALSE)

(***************************************************************************)
(* jettison.js: BooleanArrayCodec.                                         *)
(***************************************************************************)
\* What `import * as polyfill from './polyfill.js'` binds: the names polyfill.js
\* exports.  Its log2 (polyfill.js line 9) is declared with let and not exported.
polyfill_exports ==
  {"FloatPolyfill", "IntegerPolyfill", "ArrayBufferPolyfill", "DataViewPolyfill"}

\* (values && values.length) || 0
LengthOf(values) == IF values.t = "array" THEN Len(values.v) ELSE 0

\* Math.floor(log2(n)) for n >= 1.
RECURSIVE FloorLog2(_)
FloorLog2(n) == IF n <= 1 THEN 0 ELSE 1 + FloorLog2(n \div 2)

CeilDiv(a, b) == (a + b - 1) \div b

BooleanArrayCodec == [kind |-> "booleanArray"]

BooleanArrayCodec_getByteLength(values) ==
  LET length == LengthOf(values)
      valueBytes == CeilDiv(length, 8)
      \* log2(0) is -Infinity, and Math.max(-Infinity, 1) is 1
      lengthBytes == IF length = 0 THEN 1
                     ELSE IF CeilDiv(FloorLog2(length) + 1, 7) > 1
                          THEN CeilDiv(FloorLog2(length) + 1, 7) ELSE 1
  IN  IF "log2" \notin polyfill_exports
      THEN Throw("TypeError")  \* polyfill.log2 is not a function
      ELSE [value |-> (lengthBytes + valueBytes) * uint8.byteLength]

\* a | b for 32-bit operands.
BitOr(a, b) ==
  ToInt32(Num((a.hi % 65536) + (b.hi % 65536) - And16(a.hi % 65536, b.hi % 65536, 16),
              a.lo + b.lo - And16(a.lo, b.lo, 16)))

\* a << k: ToInt32, the shift count taken modulo 32, the result a signed 32-bit integer.
ShiftLeftBy(a, k) ==
  IF k < 16
  THEN ToInt32(Num(((a.hi % 65536) * (2 ^ k) + (a.lo * (2 ^ k)) \div 65536) % 65536,
                   (a.lo * (2 ^ k)) % 65536))
  ELSE ToInt32(Num((a.lo * (2 ^ (k - 16))) % 65536, 0))
ShiftLeft(a, k) == ShiftLeftBy(ToInt32(a), k % 32)

\* The loop of _getLength: byte = uint8.get(...); length |= (byte & 127) << (i * 7),
\* while the byte read has its high bit set.
RECURSIVE GetLengthLoop(_, _, _, _)
GetLengthLoop(streamView, littleEndian, i, length) ==
  Try(Codec_get(uint8, streamView, littleEndian), LAMBDA r :
    Bind(BitOr(length, ShiftLeft(BitAnd(r.value, N(127)), i * 7)), LAMBDA next :
      IF BitAnd(r.value, N(128)) # N(0)
      THEN GetLengthLoop(r.streamView, littleEndian, i + 1, next)
      ELSE [value |-> next, streamView |-> r.streamView]))

BooleanArrayCodec_getLength(streamView, littleEndian) ==
  GetLengthLoop(streamView, littleEndian, 0, N(0))

\* The loop of _setLength, entered with remainder > 0.
RECURSIVE SetLengthLoop(_, _, _)
SetLengthLoop(streamView, remainder, littleEndian) ==
  IF ~NumLess(N(0), remainder) THEN streamView
  ELSE Bind(ShiftRight(remainder, 7), LAMBDA rest :
         Try(IntegerCodec_set(uint8, streamView,
                              IF rest # N(0)
                              THEN BitOr(BitAnd(remainder, N(127)), N(128))
                              ELSE BitAnd(remainder, N(127)),
                              littleEndian),
             LAMBDA r : SetLengthLoop(r, rest, littleEndian)))

\* _setLength writing the length as one uint8, with no continuation bytes.
BooleanArrayCodec_setLength_oneByte(streamView, length, littleEndian) ==
  IntegerCodec_set(uint8, streamView, length, littleEndian)

BooleanArrayCodec_setLength(streamView, length, littleEndian) ==
  IF length = N(0) THEN IntegerCodec_set(uint8, streamView, N(0), littleEndian)
  ELSE SetLengthLoop(streamView, length, littleEndian)

\* ceil(length / 8) of a number.
NumCeilDiv8(a) ==
  Bind(NumAdd(a, N(7)), LAMBDA b :
    Num(b.hi \div 8, (b.hi % 8) * 8192 + b.lo \div 8))

\* The inner loop of get: for (bit = 0; bit < 8 && i < length; bit++, i++).
RECURSIVE GetBitsLoop(_, _, _, _, _)
GetBitsLoop(byte, bit, i, length, values) ==
  IF bit < 8 /\ NumLess(N(i), length)
  THEN GetBitsLoop(byte, bit + 1, i + 1, length,
                   Append(values, Bool(((byte \div (2 ^ bit)) % 2) = 1)))
  ELSE values

\* The outer loop of get: for (byteIndex = 0; byteIndex < byteLength; byteIndex++).
RECURSIVE GetBytesLoop(_, _, _, _, _, _)
GetBytesLoop(streamView, littleEndian, byteIndex, byteLength, length, values) ==
  IF ~NumLess(N(byteIndex), byteLength)
  THEN [value |-> Arr(values), streamView |-> streamView]
  ELSE LET r == Codec_get(uint8, streamView, littleEndian)
       IN  IF IsError(r) THEN r
           ELSE Bind(GetBitsLoop(ToInt(r.value), 0, Len(values), length, values),
                     LAMBDA next : GetBytesLoop(r.streamView, littleEndian, byteIndex + 1,
                                                byteLength, length, next))

\* BooleanArrayCodec.get returning every bit of the bytes it read, the bits past
\* the length included.
BooleanArrayCodec_get_wholeBytes(streamView, littleEndian) ==
  Try(BooleanArrayCodec_getLength(streamView, littleEndian), LAMBDA l :
    GetBytesLoop(l.streamView, littleEndian, 0, NumCeilDiv8(l.value),
                 NumScale(8, NumCeilDiv8(l.value)), <<>>))

BooleanArrayCodec_get(streamView, littleEndian) ==
  Try(BooleanArrayCodec_getLength(streamView, littleEndian), LAMBDA l :
    GetBytesLoop(l.streamView, littleEndian, 0, NumCeilDiv8(l.value), l.value, <<>>))

\* The loop of set between two writes: byte |= (values[i] ? 1 : 0) << bit, for
\* (...; i < length; i++, bit++), until bit is 8 or the values end.
RECURSIVE SetBitsLoop(_, _, _, _, _)
SetBitsLoop(values, i, length, byte, bit) ==
  IF i < length /\ bit < 8
  THEN SetBitsLoop(values, i + 1, length,
                   byte + (IF Truthy(values.v[i + 1]) THEN 2 ^ bit ELSE 0), bit + 1)
  ELSE [i |-> i, byte |-> byte, bit |-> bit]

\* The writes of set: inside the loop when bit === 8 (then byte = 0, bit = 0), and
\* after the loop when bit > 0.
RECURSIVE SetBytesLoop(_, _, _, _, _, _, _)
SetBytesLoop(streamView, values, littleEndian, i, length, byte, bit) ==
  LET s == SetBitsLoop(values, i, length, byte, bit)
  IN  IF s.i < length
      THEN Try(IntegerCodec_set(uint8, streamView, N(s.byte), littleEndian), LAMBDA r :
             SetBytesLoop(r, values, littleEndian, s.i, length, 0, 0))
      ELSE IF s.bit > 0
           THEN IntegerCodec_set(uint8, streamView, N(s.byte), littleEndian)
           ELSE streamView

BooleanArrayCodec_set(streamView, values, littleEndian) ==
  Try(BooleanArrayCodec_setLength(streamView, N(LengthOf(values)), littleEndian),
      LAMBDA l : SetBytesLoop(l, values, littleEndian, 0, LengthOf(values), 0, 0))

(***************************************************************************)
(* jettison.js: the codec table _codecs, ArrayCodec and StringCodec.       *)
(***************************************************************************)
FloatCodec(byteLength) ==
  [kind |-> "float", byteLength |-> byteLength,
   getter |-> IF byteLength = 4 THEN "Float32" ELSE "Float64",
   setter |-> IF byteLength = 4 THEN "Float32" ELSE "Float64"]

StringCodec == [kind |-> "string", lengthCodec |-> uint32, valueCodec |-> uint8]

\* The own properties of _codecs.
CodecNames ==
  {"boolean", "float32", "float64", "int8", "int16", "int32", "uint8", "uint16",
   "uint32", "booleanArray", "string"}

codecs(name) ==
  CASE name = "boolean" -> BooleanCodec
    [] name = "float32" -> FloatCodec(4)
    [] name = "float64" -> FloatCodec(8)
    [] name = "int8" -> IntegerCodec(1, TRUE)
    [] name = "int16" -> IntegerCodec(2, TRUE)
    [] name = "int32" -> IntegerCodec(4, TRUE)
    [] name = "uint8" -> IntegerCodec(1, FALSE)
    [] name = "uint16" -> IntegerCodec(2, FALSE)
    [] name = "uint32" -> IntegerCodec(4, FALSE)
    [] name = "booleanArray" -> BooleanArrayCodec
    [] name = "string" -> StringCodec

\* codec.byteLength != null
HasByteLength(codec) == "byteLength" \in DOMAIN codec

ArrayCodec(valueCodec) ==
  [kind |-> "array", lengthCodec |-> uint32, valueCodec |-> codecs(valueCodec)]

\* get and set of the codecs an array may hold (Field refuses array and string).
ValueCodec_get(codec, streamView, littleEndian) ==
  CASE codec.kind = "boolean" -> BooleanCodec_get(codec, streamView, littleEndian)
    [] codec.kind = "integer" -> Codec_get(codec, streamView, littleEndian)
    [] codec.kind = "float" -> Codec_get(codec, streamView, littleEndian)
    [] codec.kind = "booleanArray" -> BooleanArrayCodec_get(streamView, littleEndian)

ValueCodec_set(codec, streamView, value, littleEndian) ==
  CASE codec.kind = "boolean" -> BooleanCodec_set(codec, streamView, value, littleEndian)
    [] codec.kind = "integer" -> IntegerCodec_set(codec, streamView, value, littleEndian)
    [] codec.kind = "float" -> Codec_set(codec, streamView, value, littleEndian)
    [] codec.kind = "booleanArray" -> BooleanArrayCodec_set(streamView, value, littleEndian)

\* The loop of ArrayCodec.getByteLength over a dynamic value codec.
RECURSIVE ArrayByteLengthLoop(_, _, _, _)
ArrayByteLengthLoop(codec, values, i, byteLength) ==
  IF i >= Len(values.v) THEN [value |-> byteLength]
  ELSE Try(BooleanArrayCodec_getByteLength(values.v[i + 1]), LAMBDA r :
         ArrayByteLengthLoop(codec, values, i + 1, byteLength + r.value))

ArrayCodec_getByteLength(codec, values) ==
  IF ~Truthy(values) \/ LengthOf(values) = 0 THEN [value |-> 0]
  ELSE IF HasByteLength(codec.valueCodec)
       THEN [value |-> codec.lengthCodec.byteLength
                       + (Len(values.v) * codec.valueCodec.byteLength)]
       ELSE ArrayByteLengthLoop(codec, values, 0, codec.lengthCodec.byteLength)

\* The loop of ArrayCodec.get: for (index = 0; index < length; index++).
RECURSIVE ArrayGetLoop(_, _, _, _, _, _)
ArrayGetLoop(codec, streamView, littleEndian, index, length, values) ==
  IF ~NumLess(N(index), length)
  THEN [value |-> Arr(values), streamView |-> streamView]
  ELSE Try(ValueCodec_get(codec.valueCodec, streamView, littleEndian), LAMBDA r :
         ArrayGetLoop(codec, r.streamView, littleEndian, index + 1, length,
                      Append(values, r.value)))

ArrayCodec_get(codec, streamView, littleEndian) ==
  Try(Codec_get(codec.lengthCodec, streamView, littleEndian), LAMBDA l :
    IF NumLess(N(0), l.value)
    THEN ArrayGetLoop(codec, l.streamView, littleEndian, 0, l.value, <<>>)
    ELSE [value |-> Arr(<<>>), streamView |-> l.streamView])

\* The loop of ArrayCodec.set: for (i = 0, il = values.length; i < il; i++).
RECURSIVE ArraySetLoop(_, _, _, _, _)
ArraySetLoop(codec, streamView, values, littleEndian, i) ==
  IF i >= Len(values.v) THEN streamView
  ELSE Try(ValueCodec_set(codec.valueCodec, streamView, values.v[i + 1], littleEndian),
           LAMBDA r : ArraySetLoop(codec, r, values, littleEndian, i + 1))

ArrayCodec_set(codec, streamView, values, littleEndian) ==
  Try(IntegerCodec_set(codec.lengthCodec, streamView, N(LengthOf(values)),
                       littleEndian),
      LAMBDA l : IF LengthOf(values) > 0
                 THEN ArraySetLoop(codec, l, values, littleEndian, 0)
                 ELSE l)


(***************************************************************************)
(* The utf8 package jettison.js imports.  A string is its sequence of code *)
(* points; a byte string is a sequence of bytes.                           *)
(***************************************************************************)
RECURSIVE utf8_encode(_)
utf8_encode(s) ==
  IF s = <<>> THEN <<>>
  ELSE LET cp == Head(s)
           bytes ==
             IF cp < 128 THEN <<cp>>
             ELSE IF cp < 2048 THEN <<192 + cp \div 64, 128 + (cp % 64)>>
             ELSE IF cp < 65536
                  THEN <<224 + cp \div 4096, 128 + ((cp \div 64) % 64), 128 + (cp % 64)>>
                  ELSE <<240 + cp \div 262144, 128 + ((cp \div 4096) % 64),
                         128 + ((cp \div 64) % 64), 128 + (cp % 64)>>
       IN  bytes \o utf8_encode(Tail(s))

IsContinuation(bytes, i) == i <= Len(bytes) /\ bytes[i] \div 64 = 2

\* utf8.decode: the code points, or a throw on a malformed byte string.
RECURSIVE utf8_decode(_, _, _)
utf8_decode(bytes, i, out) ==
  IF i > Len(bytes) THEN [value |-> out]
  ELSE LET b == bytes[i]
       IN  IF b < 128 THEN utf8_decode(bytes, i + 1, Append(out, b))
           ELSE IF b \div 32 = 6
           THEN IF ~IsContinuation(bytes, i + 1) THEN Throw("Error")
                ELSE LET cp == (b % 32) * 64 + (bytes[i + 1] % 64)
                     IN  IF cp >= 128 THEN utf8_decode(bytes, i + 2, Append(out, cp))
                         ELSE Throw("Error")
           ELSE IF b \div 16 = 14
           THEN IF ~(IsContinuation(bytes, i + 1) /\ IsContinuation(bytes, i + 2))
                THEN Throw("Error")
                ELSE LET cp == (b % 16) * 4096 + (bytes[i + 1] % 64) * 64
                               + (bytes[i + 2] % 64)
                     IN  IF cp >= 2048 /\ ~(cp >= 55296 /\ cp <= 57343)
                         THEN utf8_decode(bytes, i + 3, Append(out, cp))
                         ELSE Throw("Error")
           ELSE IF b \div 8 = 30
           THEN IF ~(IsContinuation(bytes, i + 1) /\ IsContinuation(bytes, i + 2)
                     /\ IsContinuation(bytes, i + 3))
                THEN Throw("Error")
                ELSE LET cp == (b % 8) * 262144 + (bytes[i + 1] % 64) * 4096
                               + (bytes[i + 2] % 64) * 64 + (bytes[i + 3] % 64)
                     IN  IF cp >= 65536 /\ cp <= 1114111
                         THEN utf8_decode(bytes, i + 4, Append(out, cp))
                         ELSE Throw("Error")
           ELSE Throw("Error")

(***************************************************************************)
(* jettison.js: StringCodec.                                               *)
(***************************************************************************)
StringCodec_getByteLength(codec, value) ==
  IF Truthy(value)
  THEN [value |-> codec.lengthCodec.byteLength
                  + (codec.valueCodec.byteLength * Len(utf8_encode(value.v)))]
  ELSE IF value.t = "string"
       THEN [value |-> codec.lengthCodec.byteLength + (codec.valueCodec.byteLength * 0)]
       ELSE Throw("TypeError")  \* value.length of undefined

\* The loop of StringCodec.get: string += String.fromCharCode(valueCodec.get(...)).
RECURSIVE StringGetLoop(_, _, _, _, _, _)
StringGetLoop(codec, streamView, littleEndian, i, length, string) ==
  IF ~NumLess(N(i), length)
  THEN Try(utf8_decode(string, 1, <<>>), LAMBDA d :
         [value |-> Str(d.value), streamView |-> streamView])
  ELSE Try(Codec_get(codec.valueCodec, streamView, littleEndian), LAMBDA r :
         StringGetLoop(codec, r.streamView, littleEndian, i + 1, length,
                       Append(string, ToInt(r.value))))

StringCodec_get(codec, streamView, littleEndian) ==
  Try(Codec_get(codec.lengthCodec, streamView, littleEndian), LAMBDA l :
    IF NumLess(N(0), l.value)
    THEN StringGetLoop(codec, l.streamView, littleEndian, 0, l.value, <<>>)
    ELSE [value |-> Str(<<>>), streamView |-> l.streamView])

\* The loop of StringCodec.set: valueCodec.set(streamView, utf8String.charCodeAt(i)).
RECURSIVE StringSetLoop(_, _, _, _, _)
StringSetLoop(codec, streamView, utf8String, littleEndian, i) ==
  IF i >= Len(utf8String) THEN streamView
  ELSE Try(IntegerCodec_set(codec.valueCodec, streamView, N(utf8String[i + 1]),
                            littleEndian),
           LAMBDA r : StringSetLoop(codec, r, utf8String, littleEndian, i + 1))

\* StringCodec.set writing the length of the string where it should write the
\* length of its UTF-8 form.
StringCodec_set_stringLength(codec, streamView, value, littleEndian) ==
  IF Truthy(value)
  THEN Bind(utf8_encode(value.v), LAMBDA utf8String :
         Try(IntegerCodec_set(codec.lengthCodec, streamView, N(Len(value.v)),
                              littleEndian),
             LAMBDA l : StringSetLoop(codec, l, utf8String, littleEndian, 0)))
  ELSE IntegerCodec_set(codec.lengthCodec, streamView, N(0), littleEndian)

StringCodec_set(codec, streamView, value, littleEndian) ==
  IF Truthy(value)
  THEN Bind(utf8_encode(value.v), LAMBDA utf8String :
         Try(IntegerCodec_set(codec.lengthCodec, streamView, N(Len(utf8String)),
                              littleEndian),
             LAMBDA l : StringSetLoop(codec, l, utf8String, littleEndian, 0)))
  ELSE IntegerCodec_set(codec.lengthCodec, streamView, N(0), littleEndian)

(***************************************************************************)
(* The codec a field holds: get, set and getByteLength by the codec's      *)
(* class.                                                                  *)
(***************************************************************************)
AnyCodec_get(codec, streamView, littleEndian) ==
  CASE codec.kind = "array" -> ArrayCodec_get(codec, streamView, littleEndian)
    [] codec.kind = "string" -> StringCodec_get(codec, streamView, littleEndian)
    [] OTHER -> ValueCodec_get(codec, streamView, littleEndian)

AnyCodec_set(codec, streamView, value, littleEndian) ==
  CASE codec.kind = "array" -> ArrayCodec_set(codec, streamView, value, littleEndian)
    [] codec.kind = "string" -> StringCodec_set(codec, streamView, value, littleEndian)
    [] OTHER -> ValueCodec_set(codec, streamView, value, littleEndian)

AnyCodec_getByteLength(codec, value) ==
  CASE codec.kind = "array" -> ArrayCodec_getByteLength(codec, value)
    [] codec.kind = "string" -> StringCodec_getByteLength(codec, value)
    [] codec.kind = "booleanArray" -> BooleanArrayCodec_getByteLength(value)

(***************************************************************************)
(* jettison.js: StreamView.toString and StreamView.createFromString.  A    *)
(* transport string is its sequence of code units.                         *)
(***************************************************************************)
RECURSIVE ToStringLoop(_, _, _)
ToStringLoop(streamView, i, string) ==
  IF i >= Len(streamView.bytes) THEN string
  ELSE Try(DataView_get(streamView.bytes, "Uint8", i, FALSE), LAMBDA r :
         Bind(Append(string, ToInt(r.value)), LAMBDA next :
           ToStringLoop(streamView, i + 1, next)))

StreamView_toString(streamView) == ToStringLoop(streamView, 0, <<>>)

RECURSIVE CreateFromStringLoop(_, _, _)
CreateFromStringLoop(streamView, string, i) ==
  IF i >= Len(string) THEN streamView
  ELSE Try(IntegerCodec_set(uint8, streamView, N(string[i + 1]), FALSE), LAMBDA r :
         CreateFromStringLoop(r, string, i + 1))

\* createFromString leaving the cursor where the last set put it.
StreamView_createFromString_noReset(string) ==
  CreateFromStringLoop(StreamView_create(Len(string)), string, 0)

StreamView_createFromString(string) ==
  Try(CreateFromStringLoop(StreamView_create(Len(string)), string, 0), LAMBDA r :
    [r EXCEPT !.byteOffset = 0])

(***************************************************************************)
(* jettison.js: isValidType and Field.  NoString is the value undefined    *)
(* where the code expects a string (a key, a type name).                   *)
(***************************************************************************)
NoString == "<undefined>"

isValidType(type) == type \in CodecNames \/ type = "array"

\* Field without the check that a key is given.
Field_keyNotRequired(options) ==
  IF ~isValidType(options.type) THEN Throw("Error")
  ELSE IF options.type = "array"
       THEN IF options.valueType = "array" \/ options.valueType = "string"
               \/ ~isValidType(options.valueType)
            THEN Throw("Error")
            ELSE [key |-> options.key, type |-> options.type,
                  valueType |-> options.valueType,
                  codec |-> ArrayCodec(options.valueType)]
       ELSE [key |-> options.key, type |-> options.type,
             valueType |-> options.valueType, codec |-> codecs(options.type)]

Field(options) ==
  IF options.key \in {NoString, ""} THEN Throw("Error")  \* key is required
  ELSE IF ~isValidType(options.type) THEN Throw("Error")  \* Invalid type
  ELSE IF options.type = "array"
       THEN IF options.valueType = "array" \/ options.valueType = "string"
               \/ ~isValidType(options.valueType)
            THEN Throw("Error")  \* Invalid array value type
            ELSE [key |-> options.key, type |-> options.type,
                  valueType |-> options.valueType,
                  codec |-> ArrayCodec(options.valueType)]
       ELSE [key |-> options.key, type |-> options.type,
             valueType |-> options.valueType, codec |-> codecs(options.type)]

\* fields.map((options) => new Field(options)): the fields, or the first throw.
RECURSIVE MapFields(_, _, _)
MapFields(fields, i, out) ==
  IF i > Len(fields) THEN [value |-> out]
  ELSE Try(Field(fields[i]), LAMBDA f : MapFields(fields, i + 1, Append(out, f)))

(***************************************************************************)
(* jettison.js: Definition.  An object is a function from its property     *)
(* names to values.                                                        *)
(***************************************************************************)
\* A Definition built with the id one too low (++nextDefinitionId taken for
\* nextDefinitionId++, the other way round).
Definition_idOneLow(fields, id, key, littleEndian) ==
  [fields |-> fields, id |-> IF id = Undefined THEN id ELSE NumSub(id, N(1)),
   key |-> key, littleEndian |-> littleEndian, byteLength |-> Undefined]

Definition(fields, id, key, littleEndian) ==
  [fields |-> fields, id |-> id, key |-> key, littleEndian |-> littleEndian,
   byteLength |-> Undefined]

\* object[key]
Prop(object, key) == IF key \in DOMAIN object THEN object[key] ELSE Undefined

\* The loop of Definition.getByteLength: [byteLength, fixedByteLength], or a throw.
RECURSIVE ByteLengthLoop(_, _, _, _, _)
ByteLengthLoop(fields, object, i, byteLength, fixedByteLength) ==
  IF i >= Len(fields)
  THEN [value |-> byteLength, fixedByteLength |-> fixedByteLength]
  ELSE LET key == fields[i + 1].key
           codec == fields[i + 1].codec
       IN  IF HasByteLength(codec)
           THEN ByteLengthLoop(fields, object, i + 1, byteLength + codec.byteLength,
                               fixedByteLength)
           ELSE Try(AnyCodec_getByteLength(codec, Prop(object, key)), LAMBDA r :
                  ByteLengthLoop(fields, object, i + 1, byteLength + r.value, FALSE))

\* Definition.getByteLength caching whatever it computed, fixed-width or not.
Definition_getByteLength_alwaysCached(definition, object) ==
  IF definition.byteLength # Undefined
  THEN [value |-> ToInt(definition.byteLength), definition |-> definition]
  ELSE Try(ByteLengthLoop(definition.fields, object, 0, 0, TRUE), LAMBDA r :
         [value |-> r.value,
          definition |-> [definition EXCEPT !.byteLength = N(r.value)]])

\* Definition.getByteLength: [value, definition], the definition with its cached
\* byteLength as the call leaves it; or a throw, which leaves the definition as it was.
Definition_getByteLength(definition, object) ==
  IF definition.byteLength # Undefined
  THEN [value |-> ToInt(definition.byteLength), definition |-> definition]
  ELSE Try(ByteLengthLoop(definition.fields, object, 0, 0, TRUE), LAMBDA r :
         [value |-> r.value,
          definition |-> IF r.fixedByteLength
                         THEN [definition EXCEPT !.byteLength = N(r.value)]
                         ELSE definition])

\* Definition.get: [value, streamView], or a throw.
RECURSIVE DefinitionGetLoop(_, _, _, _)
DefinitionGetLoop(definition, streamView, i, values) ==
  IF i >= Len(definition.fields) THEN [value |-> values, streamView |-> streamView]
  ELSE LET key == definition.fields[i + 1].key
           codec == definition.fields[i + 1].codec
       IN  Try(AnyCodec_get(codec, streamView, Truthy(definition.littleEndian)),
               LAMBDA r : DefinitionGetLoop(definition, r.streamView, i + 1,
                                            (key :> r.value) @@ values))

Definition_get(definition, streamView) ==
  DefinitionGetLoop(definition, streamView, 0, <<>>)

\* Definition.set: the stream view, or a throw.
RECURSIVE DefinitionSetLoop(_, _, _, _)
DefinitionSetLoop(definition, streamView, object, i) ==
  IF i >= Len(definition.fields) THEN streamView
  ELSE LET key == definition.fields[i + 1].key
           codec == definition.fields[i + 1].codec
       IN  Try(AnyCodec_set(codec, streamView, Prop(object, key),
                            Truthy(definition.littleEndian)),
               LAMBDA r : DefinitionSetLoop(definition, r, object, i + 1))

\* Definition.set with its loop starting at the second field.
Definition_set_fromSecond(definition, streamView, object) ==
  DefinitionSetLoop(definition, streamView, object, 1)

Definition_set(definition, streamView, object) ==
  DefinitionSetLoop(definition, streamView, object, 0)

\* Definition.parse returning an object with no properties when a read fails.
Definition_parse_noThrow(definition, string) ==
  Bind(Definition_get(definition, StreamView_createFromString(string)), LAMBDA r :
    IF IsError(r) THEN [value |-> <<>>] ELSE r)

Definition_parse(definition, string) ==
  Definition_get(definition, StreamView_createFromString(string))

\* Definition.stringify: [value, definition], or a throw, with the definition as
\* the call leaves it.
Definition_stringify(definition, object) ==
  Bind(Definition_getByteLength(definition, object), LAMBDA l :
    IF IsError(l) THEN [error |-> l.error, definition |-> definition]
    ELSE Bind(Definition_set(l.definition, StreamView_create(l.value), object),
              LAMBDA streamView :
                IF IsError(streamView)
                THEN [error |-> streamView.error, definition |-> l.definition]
                ELSE [value |-> StreamView_toString(streamView),
                      definition |-> l.definition]))

(***************************************************************************)
(* jettison.js: Schema.  createSchema() passes no idType, so the id codec  *)
(* is uint8.  The two tables hold references to the Definition objects in  *)
(* heap.                                                                   *)
(***************************************************************************)
idType == "uint8"

\* Names every object inherits from Object.prototype: this.definitions is {}.
ObjectPrototypeKeys ==
  {"constructor", "toString", "valueOf", "hasOwnProperty", "isPrototypeOf",
   "propertyIsEnumerable", "toLocaleString", "__proto__"}

\* Schema.stringify once the definition is found (lines 591-596): [value, heap], or
\* a throw, with the heap as the call leaves it.
Schema_encode(h, ref, object) ==
  Bind(codecs(idType), LAMBDA idCodec :
    Bind(Definition_getByteLength(h[ref], object), LAMBDA l :
      IF IsError(l) THEN [error |-> l.error, heap |-> h]
      ELSE Bind(Try(IntegerCodec_set(idCodec,
                                     StreamView_create(idCodec.byteLength + l.value),
                                     h[ref].id, FALSE),
                    LAMBDA withId : Definition_set(l.definition, withId, object)),
                LAMBDA streamView :
                  IF IsError(streamView)
                  THEN [error |-> streamView.error,
                        heap |-> [h EXCEPT ![ref] = l.definition]]
                  ELSE [value |-> StreamView_toString(streamView),
                        heap |-> [h EXCEPT ![ref] = l.definition]])))

\* Schema.stringify without the check of lines 588-590: an empty string for a key
\* that is not defined.
Schema_stringify_unchecked(defs, h, key, object) ==
  IF key \in DOMAIN defs THEN Schema_encode(h, defs[key], object)
  ELSE [value |-> <<>>, heap |-> h]

\* Schema.stringify: [value, heap], or a throw.
Schema_stringify(defs, h, key, object) ==
  IF key \notin DOMAIN defs
  THEN IF key \in ObjectPrototypeKeys
       THEN [error |-> "TypeError", heap |-> h]  \* definition.getByteLength is not a function
       ELSE [error |-> "Error", heap |-> h]      \* is not defined in schema
  ELSE Schema_encode(h, defs[key], object)

\* Schema.parse once the definition is found (lines 580-583).
Schema_decode(h, ref, streamView) ==
  Try(Definition_get(h[ref], streamView), LAMBDA data :
    [value |-> [key |-> h[ref].key, data |-> data.value]])

\* Schema.parse without the check of lines 577-579: an empty object for an id that
\* is not defined.
Schema_parse_unchecked(byId, h, string) ==
  Try(Codec_get(codecs(idType), StreamView_createFromString(string), FALSE),
      LAMBDA id :
        IF ToInt(id.value) \notin DOMAIN byId
        THEN [value |-> [key |-> NoString, data |-> <<>>]]
        ELSE Schema_decode(h, byId[ToInt(id.value)], id.streamView))

\* Schema.parse: [value |-> [key, data]], or a throw.
Schema_parse(byId, h, string) ==
  Try(Codec_get(codecs(idType), StreamView_createFromString(string), FALSE),
      LAMBDA id :
        IF ToInt(id.value) \notin DOMAIN byId
        THEN Throw("Error")  \* is not defined in schema
        ELSE Schema_decode(h, byId[ToInt(id.value)], id.streamView))

(***************************************************************************)
(* The inputs the Schema model draws.                                      *)
(***************************************************************************)
MaxDefinitions == 2

F(key, type) == [key |-> key, type |-> type, valueType |-> NoString]
FA(key, valueType) == [key |-> key, type |-> "array", valueType |-> valueType]

FixedFields == <<F("id", "int16"), F("alive", "boolean")>>
ArrayFields == <<F("id", "int16"), FA("points", "int8"), F("health", "uint8")>>
FlagsFields == <<F("id", "int16"), F("flags", "booleanArray"), F("health", "uint8")>>
WordsFields == <<F("count", "uint32"), F("delta", "int32"), F("level", "uint16")>>
RowsFields == <<FA("rows", "booleanArray"), F("health", "uint8")>>
BadTypeFields == <<F("id", "int16"), F("extra", "object")>>

DefineInputs ==
  {<<"spawn", FixedFields>>, <<"position", ArrayFields>>, <<"position", FlagsFields>>,
   <<"spawn", BadTypeFields>>}

\* The values drawn for the property `key` of an object to encode.
ValuesFor(key) ==
  CASE key = "id" -> {N(1), N(-300)}
    [] key = "alive" -> {Bool(TRUE), Bool(FALSE)}
    [] key = "health" -> {N(100)}
    [] key = "points" -> {Arr(<<>>), Arr(<<N(5)>>), Arr(<<N(-1), N(7)>>)}
    [] key = "flags" -> {Arr(<<>>), Arr(<<Bool(TRUE), Bool(FALSE), Bool(TRUE)>>)}
    [] key = "count" -> {N(0), Num(65535, 65535)}
    [] key = "delta" -> {N(-1), Num(-32768, 0)}
    [] key = "level" -> {N(513)}
    [] key = "rows" -> {Arr(<<>>), Arr(<<Arr(<<Bool(TRUE)>>)>>)}
    [] key = "probe" -> {}  \* no object is encoded with the one-field definitions

FieldKeys(fields) == {fields[i].key : i \in 1..Len(fields)}

ObjectsFor(fields) ==
  {o \in [FieldKeys(fields) -> UNION {ValuesFor(k) : k \in FieldKeys(fields)}] :
     \A k \in FieldKeys(fields) : o[k] \in ValuesFor(k)}

StringifyKeys == {"spawn", "position", "missing", "constructor"}

ParseInputs ==
  {<<>>, <<0>>, <<1>>, <<3>>, <<300>>,
   <<1, 255, 212, 1>>, <<2, 0, 1, 0>>, <<1, 0, 1, 0, 0, 0, 2, 9, 8, 100>>,
   <<2, 0, 1, 0, 0, 0, 9, 1>>}

(***************************************************************************)
(* The Schema's operations, on the Schema createSchema() returns.          *)
(***************************************************************************)
SchemaInit ==
  /\ definitions = <<>>
  /\ definitionsById = <<>>
  /\ nextDefinitionId = 1
  /\ heap = <<>>
  /\ defineErrors = 0
  /\ ret = [op |-> "none"]

Init == SchemaInit /\ standalone = Undefined /\ cx = [op |-> "none"]

\* schema.define(key, fields), while the Schema has had fewer than limit defines
SchemaDefineUpTo(key, fields, limit) ==
  /\ nextDefinitionId <= limit
  /\ nextDefinitionId' = nextDefinitionId + 1
  /\ \E mapped \in {MapFields(fields, 1, <<>>)} :
       IF IsError(mapped)
       THEN /\ UNCHANGED <<definitions, definitionsById, heap>>
            /\ defineErrors' = defineErrors + 1
            /\ ret' = [op |-> "define", key |-> key, status |-> "throw"]
       ELSE /\ heap' = Append(heap, Definition(mapped.value, N(nextDefinitionId), key,
                                               Undefined))
            /\ definitions' = (key :> (Len(heap) + 1)) @@ definitions
            /\ definitionsById' = (nextDefinitionId :> (Len(heap) + 1)) @@ definitionsById
            /\ defineErrors' = defineErrors
            /\ ret' = [op |-> "define", key |-> key, status |-> "ok"]
  /\ UNCHANGED <<standalone, cx>>

\* schema.define(key, fields)
SchemaDefine(key, fields) == SchemaDefineUpTo(key, fields, MaxDefinitions)

\* schema.stringify(key, object)
SchemaStringify(key, object) ==
  /\ \E r \in {Schema_stringify(definitions, heap, key, object)} :
       /\ heap' = r.heap
       /\ ret' = IF IsError(r)
                 THEN [op |-> "stringify", key |-> key, object |-> object,
                       status |-> "throw", error |-> r.error]
                 ELSE [op |-> "stringify", key |-> key, object |-> object,
                       status |-> "ok", value |-> r.value]
  /\ UNCHANGED <<definitions, definitionsById, nextDefinitionId, defineErrors,
                 standalone, cx>>

\* schema.parse(string)
SchemaParse(string) ==
  /\ \E r \in {Schema_parse(definitionsById, heap, string)} :
       ret' = IF IsError(r)
              THEN [op |-> "parse", string |-> string, status |-> "throw",
                    error |-> r.error]
              ELSE [op |-> "parse", string |-> string, status |-> "ok",
                    value |-> r.value]
  /\ UNCHANGED <<definitions, definitionsById, nextDefinitionId, heap,
                 defineErrors, standalone, cx>>

Next ==
  \/ \E input \in DefineInputs : SchemaDefine(input[1], input[2])
  \/ \E key \in StringifyKeys :
       \E object \in (IF key \in DOMAIN definitions
                      THEN ObjectsFor(heap[definitions[key]].fields)
                      ELSE {[id |-> N(1)]}) :
         SchemaStringify(key, object)
  \/ \E string \in ParseInputs : SchemaParse(string)

Spec == Init /\ [][Next]_vars

(***************************************************************************)
(* A standalone Definition: jettison.define(fields), then the methods of   *)
(* the Definition it returned.                                             *)
(***************************************************************************)
\* Type names: those of the integer, boolean, boolean array and string codecs,
\* 'array', two names that are no type, and no name at all.
ProbeTypes ==
  {"boolean", "float32", "float64", "int8", "int16", "int32", "uint8", "uint16",
   "uint32", "booleanArray", "string", "array", "object", "constructor", NoString}

\* One-field lists: a key absent or empty; every type name with no value type and
\* with a value type it has no use for; an array of every type name.
FieldProbes ==
  {<<[key |-> key, type |-> type, valueType |-> "int8"]>> :
     key \in {NoString, ""}, type \in {"int8", "array", "object"}}
  \cup {<<[key |-> "probe", type |-> type, valueType |-> valueType]>> :
          type \in ProbeTypes \ {"array"}, valueType \in {NoString, "string"}}
  \cup {<<FA("probe", valueType)>> : valueType \in ProbeTypes}

DefinitionFieldLists ==
  {FixedFields, ArrayFields, FlagsFields, WordsFields, RowsFields, BadTypeFields}
  \cup FieldProbes

\* Whole encodings, big-endian, of objects under the field lists: fixed-width
\* fields, an int8 array with two and with no elements, boolean arrays of 3 and
\* of 130 flags (a length of two bytes), an array of one boolean array, a string
\* and a float64.
EncodedObjects ==
  {[fields |-> FixedFields, string |-> <<255, 212, 1>>],
   [fields |-> WordsFields, string |-> <<255, 255, 255, 255, 128, 0, 0, 0, 2, 1>>],
   [fields |-> ArrayFields, string |-> <<0, 1, 0, 0, 0, 2, 9, 8, 100>>],
   [fields |-> ArrayFields, string |-> <<0, 1, 0, 0, 0, 0, 100>>],
   [fields |-> FlagsFields, string |-> <<0, 1, 3, 5, 100>>],
   [fields |-> FlagsFields,
    string |-> <<0, 1, 130, 1>> \o [i \in 1..18 |-> IF i = 18 THEN 100 ELSE 85]],
   [fields |-> RowsFields, string |-> <<0, 0, 0, 1, 9, 255, 1, 100>>],
   [fields |-> <<F("probe", "string")>>, string |-> <<0, 0, 0, 3, 226, 130, 172>>],
   [fields |-> <<F("probe", "float64")>>, string |-> <<63, 240, 0, 0, 0, 0, 0, 1>>]}

\* The whole encodings under the fields of a Definition.
EncodedFor(definition) ==
  IF definition = Undefined THEN {}
  ELSE {e.string : e \in {e \in EncodedObjects :
                            definition.fields = MapFields(e.fields, 1, <<>>).value}}

\* The strings that are a whole encoding with its end cut off.
CutShort(strings) ==
  UNION {{SubSeq(string, 1, n) : n \in 0..(Len(string) - 1)} : string \in strings}

InitDefinition == Init

\* standalone = jettison.define(fields)
Define(fields) ==
  /\ \E mapped \in {MapFields(fields, 1, <<>>)} :
       IF IsError(mapped)
       THEN /\ UNCHANGED standalone
            /\ ret' = [op |-> "jettison.define", fields |-> fields, status |-> "throw"]
       ELSE /\ standalone' = Definition(mapped.value, Undefined, NoString, Undefined)
            /\ ret' = [op |-> "jettison.define", fields |-> fields, status |-> "ok"]
  /\ UNCHANGED <<definitions, definitionsById, nextDefinitionId, heap, defineErrors, cx>>

\* standalone.getByteLength(object)
DefinitionGetByteLength(object) ==
  /\ standalone # Undefined
  /\ \E r \in {Definition_getByteLength(standalone, object)} :
       IF IsError(r)
       THEN /\ UNCHANGED standalone
            /\ ret' = [op |-> "getByteLength", object |-> object, status |-> "throw",
                       error |-> r.error]
       ELSE /\ standalone' = r.definition
            /\ ret' = [op |-> "getByteLength", object |-> object, status |-> "ok",
                       value |-> r.value]
  /\ UNCHANGED <<definitions, definitionsById, nextDefinitionId, heap, defineErrors, cx>>

\* standalone.stringify(object)
DefinitionStringify(object) ==
  /\ standalone # Undefined
  /\ \E r \in {Definition_stringify(standalone, object)} :
       /\ standalone' = r.definition
       /\ ret' = IF IsError(r)
                 THEN [op |-> "stringify", object |-> object, status |-> "throw",
                       error |-> r.error]
                 ELSE [op |-> "stringify", object |-> object, status |-> "ok",
                       value |-> r.value]
  /\ UNCHANGED <<definitions, definitionsById, nextDefinitionId, heap, defineErrors, cx>>

\* standalone.parse(string)
DefinitionParse(string) ==
  /\ standalone # Undefined
  /\ \E r \in {Definition_parse(standalone, string)} :
       ret' = IF IsError(r)
              THEN [op |-> "parse", string |-> string, status |-> "throw",
                    error |-> r.error]
              ELSE [op |-> "parse", string |-> string, status |-> "ok",
                    value |-> r.value]
  /\ UNCHANGED <<definitions, definitionsById, nextDefinitionId, heap, defineErrors,
                 standalone, cx>>

NextDefinition ==
  \/ \E fields \in DefinitionFieldLists : Define(fields)
  \/ \E object \in ObjectsFor(IF standalone = Undefined THEN <<>> ELSE standalone.fields)
                    \cup {<<>>} :
       DefinitionGetByteLength(object)
  \/ \E object \in ObjectsFor(IF standalone = Undefined THEN <<>> ELSE standalone.fields) :
       DefinitionStringify(object)
  \/ \E string \in ParseInputs \cup EncodedFor(standalone)
                    \cup CutShort(EncodedFor(standalone)) :
       DefinitionParse(string)

SpecDefinition == InitDefinition /\ [][NextDefinition]_vars

(***************************************************************************)
(* One codec on one stream view, as the tests drive it: create the stream  *)
(* view, set a value, rewind, get it back.                                 *)
(***************************************************************************)
MaxFlags == 3

IntegerTypes == {"int8", "int16", "int32", "uint8", "uint16", "uint32"}

\* -2^31 - 1 .. 2^32 + 5, with the bounds of every integer type and their neighbours.
IntegerInputs ==
  {Num(-32769, 65535), Num(-32768, 0), Num(-32768, 1), Num(-21555, 12817),
   N(-32769), N(-32768), N(-32767), N(-129), N(-128), N(-127), N(-2), N(-1),
   N(0), N(1), N(127), N(128), N(254), N(255), N(256), N(4660), N(32767), N(32768),
   N(65534), N(65535), N(65536), N(305419896),
   Num(32767, 65534), Num(32767, 65535), Num(32768, 0), Num(43981, 61185),
   Num(65535, 65534), Num(65535, 65535), Num(65536, 0), Num(65536, 5)}

\* Every array of at most MaxFlags booleans.
ShortFlags ==
  UNION {{Arr([i \in 1..n |-> Bool(b[i])]) : b \in [1..n -> BOOLEAN]} : n \in 0..MaxFlags}

\* Longer arrays: all true, and true at every third place.
LongFlags ==
  UNION {{Arr([i \in 1..n |-> Bool(TRUE)]), Arr([i \in 1..n |-> Bool(i % 3 = 1)])} :
           n \in {7, 8, 9, 16, 17, 127, 128, 129, 255}}

FlagsInputs == ShortFlags \cup LongFlags \cup {Undefined}

\* The bytes a boolean array takes on the wire: its length in 7-bit groups, low
\* group first, then one byte for every 8 flags.
FlagsByteLength(values) ==
  (IF LengthOf(values) < 128 THEN 1 ELSE IF LengthOf(values) < 16384 THEN 2 ELSE 3)
  + CeilDiv(LengthOf(values), 8)

\* Strings: absent, empty, ASCII, and with characters of 2, 3 and 4 UTF-8 bytes.
StringValues ==
  {Undefined, Str(<<>>), Str(<<97>>), Str(<<104, 111, 100, 248, 114>>),
   Str(<<8364, 33>>), Str(<<128512>>)}

\* The bytes a string takes on the wire: a uint32 length and its UTF-8 form.
StringByteLength(value) ==
  uint32.byteLength + (IF value.t = "string" THEN Len(utf8_encode(value.v)) ELSE 0)

\* The numbers the float tests convert that both formats hold exactly, the
\* smallest float32 and float64, and the values FloatPolyfill.set tells apart.
FloatTypes == {"float32", "float64"}
FloatValues ==
  {NaN, Infinity(0), Infinity(1), Zero(0), Zero(1),
   Float("finite", 0, {0}), Float("finite", 1, {0}), Float("finite", 0, {-1}),
   Float("finite", 0, {3, 1, -1}), Float("finite", 1, {3, 1, -1}),
   Float("finite", 0, {-149}), Float("finite", 0, {-1074})}

\* Finite doubles (at most 53 bits from 2^1023 down to 2^-1074) around the
\* places where FloatPolyfill.set changes branch: the float tests' 1e39 and
\* 1.00001 to their leading bits, the largest float32 and what lies between it
\* and 2^128, numbers a rounding step below a power of two, halfway between two
\* float32, around the smallest normal float32 and in its denormals, and the
\* largest, the smallest normal and the denormal doubles.
FloatFiniteBits ==
  {{129, 100}, {0, -17, -19, -21}, 104..127, 103..127, 102..127, 100..127, 76..127,
   -30..0, -24..0, {0, -24}, {0, -23, -24}, {0, -24, -50}, {0, -25}, {1, -22},
   {-126}, -149..-127, -160..-127, -150..-127, -170..-128, {-127, -150},
   {-140}, {-149, -150}, {-150}, {-150, -190}, {-151}, {-160},
   971..1023, {1023}, {-1022}, -1074..-1023, {-1023}, {-1040, -1074}, -52..0}
FloatFiniteInputs ==
  {Float("finite", sign, bits) : sign \in {0, 1}, bits \in FloatFiniteBits}

\* Fields for _floatPartsToByteArray: each sign, the exponents 0, 1, bias,
\* exponentMax - 1 and exponentMax, and significands with no bit, the lowest,
\* the highest, one in every byte, every other and every bit set.
FloatFieldsOf(p) ==
  {[byteLength |-> p.byteLength, signed |-> signed, exponent |-> exponent,
    significand |-> significand] :
     signed \in {0, 1},
     exponent \in {0, 1, p.exponentBias, p.exponentMax - 1, p.exponentMax},
     significand \in {{}, {0}, {p.numSignificandBits - 1},
                      {k \in 0..(p.numSignificandBits - 1) : k % 8 = 3},
                      {k \in 0..(p.numSignificandBits - 1) : k % 2 = 0},
                      0..(p.numSignificandBits - 1)}}
FloatFieldInputs == FloatFieldsOf(FloatPolyfill(4)) \cup FloatFieldsOf(FloatPolyfill(8))

CodecInputs ==
  {[type |-> type, value |-> value, byteLength |-> codecs(type).byteLength] :
     type \in IntegerTypes, value \in IntegerInputs}
  \cup {[type |-> type, value |-> value, byteLength |-> codecs(type).byteLength] :
          type \in FloatTypes, value \in FloatValues}
  \cup {[type |-> "string", value |-> value, byteLength |-> StringByteLength(value)] :
          value \in StringValues}
  \cup {[type |-> "booleanArray", value |-> value, byteLength |-> FlagsByteLength(value) + extra] :
          value \in FlagsInputs, extra \in {0, 1}}

\* Received boolean arrays: a length in 7-bit groups, the flag bytes (with the bits
\* past the length clear or set), and in some a byte after them or a byte missing.
FlagsStrings ==
  {<<0>>, <<0, 77>>, <<1, 1>>, <<1, 254>>, <<3, 5>>, <<3, 253>>, <<8, 170>>,
   <<9, 255, 1>>, <<9, 255, 255>>, <<9, 255, 254, 3>>, <<9, 255>>,
   <<130, 1>> \o [i \in 1..17 |-> IF i = 17 THEN 2 ELSE 85],
   <<130, 1>> \o [i \in 1..17 |-> IF i = 17 THEN 254 ELSE 85]}

ReadInputs == {[type |-> "booleanArray", string |-> string] : string \in FlagsStrings}

\* Lengths from 0 to 2^32 - 1, with the first and last length of every byte count.
LengthInputs ==
  {N(0), N(1), N(127), N(128), N(300), N(16383), N(16384), Num(31, 65535), Num(32, 0),
   Num(4095, 65535), Num(4096, 0), Num(32767, 65535), Num(32768, 0), Num(43981, 61185),
   Num(65535, 65535)}

\* The bytes of the longest length, and one more.
LengthBufferSize == 6

\* The codecs with getByteLength that a Field can hold, and values for each.
ArrayValues ==
  {Undefined, Arr(<<>>), Arr(<<N(1)>>), Arr(<<N(1), N(2), N(3)>>)}

RowsValues ==
  {Undefined, Arr(<<>>), Arr(<<Arr(<<Bool(TRUE)>>)>>),
   Arr(<<Arr(<<>>), Arr([i \in 1..9 |-> Bool(TRUE)])>>)}

ByteLengthInputs ==
  {[codec |-> ArrayCodec(valueType), value |-> value] :
     valueType \in {"int8", "uint16", "int32", "boolean"}, value \in ArrayValues}
  \cup {[codec |-> ArrayCodec("booleanArray"), value |-> value] : value \in RowsValues}
  \cup {[codec |-> StringCodec, value |-> value] : value \in StringValues}
  \cup {[codec |-> BooleanArrayCodec, value |-> value] : value \in ShortFlags}

InitCodec == Init

\* streamView = StreamView.create(byteLength); codec.set(streamView, value, littleEndian)
CodecSet(type, value, byteLength, littleEndian) ==
  /\ cx.op = "none"
  /\ \E r \in {AnyCodec_set(codecs(type), StreamView_create(byteLength), value,
                             littleEndian)} :
       cx' = IF IsError(r)
             THEN [op |-> "set", type |-> type, value |-> value,
                   littleEndian |-> littleEndian, status |-> "throw", error |-> r.error]
             ELSE [op |-> "set", type |-> type, value |-> value,
                   littleEndian |-> littleEndian, status |-> "ok", streamView |-> r]
  /\ UNCHANGED <<definitions, definitionsById, nextDefinitionId, heap, defineErrors, ret,
                 standalone>>

\* streamView.byteOffset = 0; codec.get(streamView, littleEndian)
CodecGet ==
  /\ cx.op = "set" /\ cx.status = "ok"
  /\ \E r \in {AnyCodec_get(codecs(cx.type), [cx.streamView EXCEPT !.byteOffset = 0],
                             cx.littleEndian)} :
       cx' = IF IsError(r)
             THEN [op |-> "get", type |-> cx.type, value |-> cx.value,
                   littleEndian |-> cx.littleEndian, status |-> "throw",
                   error |-> r.error, written |-> cx.streamView]
             ELSE [op |-> "get", type |-> cx.type, value |-> cx.value,
                   littleEndian |-> cx.littleEndian, status |-> "ok",
                   streamView |-> r.streamView, out |-> r.value,
                   written |-> cx.streamView]
  /\ UNCHANGED <<definitions, definitionsById, nextDefinitionId, heap, defineErrors, ret,
                 standalone>>

\* encoded = streamView.toString(); decodedStreamView = StreamView.createFromString(encoded)
CodecToString ==
  /\ cx.op = "set" /\ cx.status = "ok"
  /\ \E string \in {StreamView_toString(cx.streamView)} :
       cx' = [op |-> "toString", written |-> cx.streamView, string |-> string,
              back |-> StreamView_createFromString(string)]
  /\ UNCHANGED <<definitions, definitionsById, nextDefinitionId, heap, defineErrors, ret,
                 standalone>>

\* streamView = StreamView.createFromString(string); codec.get(streamView, littleEndian)
CodecRead(type, string, littleEndian) ==
  /\ cx.op = "none"
  /\ \E r \in {Try(StreamView_createFromString(string), LAMBDA streamView :
                     AnyCodec_get(codecs(type), streamView, littleEndian))} :
       cx' = IF IsError(r)
             THEN [op |-> "read", type |-> type, string |-> string,
                   littleEndian |-> littleEndian, status |-> "throw", error |-> r.error]
             ELSE [op |-> "read", type |-> type, string |-> string,
                   littleEndian |-> littleEndian, status |-> "ok",
                   streamView |-> r.streamView, out |-> r.value]
  /\ UNCHANGED <<definitions, definitionsById, nextDefinitionId, heap, defineErrors, ret,
                 standalone>>

\* streamView = StreamView.create(...); codec._setLength(streamView, length, littleEndian)
LengthSet(length, littleEndian) ==
  /\ cx.op = "none"
  /\ \E r \in {BooleanArrayCodec_setLength(StreamView_create(LengthBufferSize), length,
                                            littleEndian)} :
       cx' = IF IsError(r)
             THEN [op |-> "setLength", length |-> length, littleEndian |-> littleEndian,
                   status |-> "throw", error |-> r.error]
             ELSE [op |-> "setLength", length |-> length, littleEndian |-> littleEndian,
                   status |-> "ok", streamView |-> r]
  /\ UNCHANGED <<definitions, definitionsById, nextDefinitionId, heap, defineErrors, ret,
                 standalone>>

\* streamView.byteOffset = 0; codec._getLength(streamView, littleEndian)
LengthGet ==
  /\ cx.op = "setLength" /\ cx.status = "ok"
  /\ \E r \in {BooleanArrayCodec_getLength([cx.streamView EXCEPT !.byteOffset = 0],
                                            cx.littleEndian)} :
       cx' = IF IsError(r)
             THEN [op |-> "getLength", length |-> cx.length,
                   littleEndian |-> cx.littleEndian, status |-> "throw",
                   error |-> r.error, written |-> cx.streamView]
             ELSE [op |-> "getLength", length |-> cx.length,
                   littleEndian |-> cx.littleEndian, status |-> "ok",
                   streamView |-> r.streamView, out |-> r.value,
                   written |-> cx.streamView]
  /\ UNCHANGED <<definitions, definitionsById, nextDefinitionId, heap, defineErrors, ret,
                 standalone>>

\* codec.getByteLength(value)
CodecGetByteLength(codec, value) ==
  /\ cx.op = "none"
  /\ \E r \in {AnyCodec_getByteLength(codec, value)} :
       cx' = IF IsError(r)
             THEN [op |-> "getByteLength", codec |-> codec, value |-> value,
                   status |-> "throw", error |-> r.error]
             ELSE [op |-> "getByteLength", codec |-> codec, value |-> value,
                   status |-> "ok", out |-> r.value]
  /\ UNCHANGED <<definitions, definitionsById, nextDefinitionId, heap, defineErrors, ret,
                 standalone>>

\* bytes = new Array(byteLength + 1) of 0;
\* polyfill._floatPartsToByteArray(bytes, byteOffset, signed, exponent, significand, littleEndian)
FloatPack(byteLength, byteOffset, signed, exponent, significand, littleEndian) ==
  /\ cx.op = "none"
  /\ cx' = [op |-> "pack", byteLength |-> byteLength, byteOffset |-> byteOffset,
            signed |-> signed, exponent |-> exponent, significand |-> significand,
            littleEndian |-> littleEndian,
            bytes |-> FloatPolyfill_floatPartsToByteArray(
                        FloatPolyfill(byteLength), [n \in 1..(byteLength + 1) |-> 0],
                        byteOffset, signed, exponent, significand, littleEndian)]
  /\ UNCHANGED <<definitions, definitionsById, nextDefinitionId, heap, defineErrors, ret,
                 standalone>>

\* bytes = new Array(byteLength) of 0; polyfill.set(bytes, 0, value, littleEndian);
\* parts are the arguments set hands to _floatPartsToByteArray.
FloatSet(byteLength, value, littleEndian) ==
  /\ cx.op = "none"
  /\ cx' = [op |-> "floatSet", byteLength |-> byteLength, value |-> value,
            littleEndian |-> littleEndian,
            parts |-> FloatParts(FloatPolyfill(byteLength), value),
            bytes |-> FloatPolyfill_set(FloatPolyfill(byteLength),
                                        [n \in 1..byteLength |-> 0], 0, value,
                                        littleEndian)]
  /\ UNCHANGED <<definitions, definitionsById, nextDefinitionId, heap, defineErrors, ret,
                 standalone>>

\* polyfill.get(bytes, 0, littleEndian) of the bytes set wrote
FloatGetBack ==
  /\ cx.op = "floatSet"
  /\ cx' = [cx EXCEPT !.op = "floatGet"] @@
           [out |-> FloatPolyfill_get(FloatPolyfill(cx.byteLength), cx.bytes, 0,
                                      cx.littleEndian)]
  /\ UNCHANGED <<definitions, definitionsById, nextDefinitionId, heap, defineErrors, ret,
                 standalone>>

\* polyfill.get(bytes, byteOffset, littleEndian)
FloatUnpack ==
  /\ cx.op = "pack"
  /\ cx' = [cx EXCEPT !.op = "unpack"] @@
           [out |-> FloatPolyfill_get(FloatPolyfill(cx.byteLength), cx.bytes,
                                      cx.byteOffset, cx.littleEndian)]
  /\ UNCHANGED <<definitions, definitionsById, nextDefinitionId, heap, defineErrors, ret,
                 standalone>>

\* The stream view goes out of scope.
CodecRelease ==
  /\ cx.op \in {"set", "get", "read", "setLength", "getLength", "getByteLength", "pack",
                "unpack", "floatSet", "floatGet", "toString"}
  /\ cx' = [op |-> "none"]
  /\ UNCHANGED <<definitions, definitionsById, nextDefinitionId, heap, defineErrors, ret,
                 standalone>>

NextCodec ==
  \/ \E input \in CodecInputs, littleEndian \in BOOLEAN :
       CodecSet(input.type, input.value, input.byteLength, littleEndian)
  \/ CodecGet
  \/ CodecToString
  \/ \E input \in ReadInputs, littleEndian \in BOOLEAN :
       CodecRead(input.type, input.string, littleEndian)
  \/ \E length \in LengthInputs, littleEndian \in BOOLEAN : LengthSet(length, littleEndian)
  \/ LengthGet
  \/ \E input \in ByteLengthInputs : CodecGetByteLength(input.codec, input.value)
  \/ \E input \in FloatFieldInputs, byteOffset \in {0, 1}, littleEndian \in BOOLEAN :
       FloatPack(input.byteLength, byteOffset, input.signed, input.exponent,
                 input.significand, littleEndian)
  \/ FloatUnpack
  \/ \E byteLength \in {4, 8}, value \in FloatValues \cup FloatFiniteInputs,
        littleEndian \in BOOLEAN :
       FloatSet(byteLength, value, littleEndian)
  \/ FloatGetBack
  \/ CodecRelease

SpecCodec == InitCodec /\ [][NextCodec]_vars

(***************************************************************************)
(* A Schema with more definitions than the id codec has ids: one define    *)
(* after another, each of a key of its own, then stringify of the first    *)
(* and the last keys and parse of what stringify returned.                 *)
(***************************************************************************)
MaxIds == 257

\* What a call came to: the value it returned or the error it threw.
Outcome(r) ==
  IF IsError(r) THEN [status |-> "throw", error |-> r.error]
  ELSE [status |-> "ok", value |-> r.value]

KeyOf(id) == "entity" \o ToString(id)

\* The keys of the id 1, of the last id of the id codec, and of the two after it.
ManyStringifyKeys == {KeyOf(id) : id \in {1, 255, 256, 257}}

\* schema.define('entity<n>', fields) for the n-th define
ManyDefine == SchemaDefineUpTo(KeyOf(nextDefinitionId), FixedFields, MaxIds)

\* string = schema.stringify(key, object); schema.parse(string)
ManyStringifyParse(key, object) ==
  /\ key \in DOMAIN definitions
  /\ \E r \in {Schema_stringify(definitions, heap, key, object)} :
       /\ heap' = r.heap
       /\ ret' = IF IsError(r)
                 THEN [op |-> "stringify", key |-> key, object |-> object,
                       status |-> "throw", error |-> r.error]
                 ELSE [op |-> "stringify", key |-> key, object |-> object,
                       status |-> "ok", value |-> r.value,
                       parsed |-> Outcome(Schema_parse(definitionsById, r.heap, r.value))]
  /\ UNCHANGED <<definitions, definitionsById, nextDefinitionId, defineErrors,
                 standalone, cx>>

NextMany ==
  \/ ManyDefine
  \/ \E key \in ManyStringifyKeys,
        object \in {o \in ObjectsFor(FixedFields) : o["id"] = N(1)} :
       ManyStringifyParse(key, object)

SpecMany == Init /\ [][NextMany]_vars

(***************************************************************************)
(* Two calls at once on a Schema whose defines are done.  A stringify is   *)
(* taken in the steps at which it reads or writes what the calls share:    *)
(* the tables, the test of the Definition's byteLength, the loop over the  *)
(* fields, the assignment of byteLength, and the writes into its own       *)
(* stream view.  A parse reads the tables and the fields in one step.      *)
(***************************************************************************)
StringifyCall(key, object) ==
  [kind |-> "stringify", key |-> key, object |-> object, string |-> <<>>,
   pc |-> "lookup", length |-> 0, result |-> [status |-> "none"]]
ParseCall(string) ==
  [kind |-> "parse", key |-> NoString, object |-> <<>>, string |-> string,
   pc |-> "parse", length |-> 0, result |-> [status |-> "none"]]

\* The calls drawn: stringify of the objects with id 1 under a defined key and of
\* a key that is not defined; parse of a spawn, a position and an unknown id.
ConcurrentStringifies ==
  {StringifyCall("missing", [id |-> N(1)])}
  \cup UNION {{StringifyCall(key, object) :
                 object \in {o \in ObjectsFor(heap[definitions[key]].fields) :
                                o["id"] = N(1)}} :
              key \in DOMAIN definitions}
ConcurrentParses ==
  {ParseCall(<<1, 255, 212, 1>>), ParseCall(<<2, 0, 1, 0, 0, 0, 2, 9, 8, 100>>),
   ParseCall(<<3>>)}

Done(call, result) == [call EXCEPT !.pc = "done", !.result = result]

\* schema.define(key, fields), before any stringify or parse is called
ConcurrentDefine(key, fields) ==
  /\ cx.op = "none"
  /\ SchemaDefine(key, fields)

\* Two calls are made and neither has taken a step.
CallsBegin(first, second) ==
  /\ cx.op = "none"
  /\ cx' = [op |-> "calls", calls |-> <<first, second>>]
  /\ UNCHANGED <<definitions, definitionsById, nextDefinitionId, heap, defineErrors, ret,
                 standalone>>

\* Schema.stringify lines 587-590, and Definition.getByteLength lines 473-475
StringifyLookup(pid) ==
  /\ cx.op = "calls" /\ cx.calls[pid].pc = "lookup"
  /\ LET call == cx.calls[pid]
     IN  cx' = [cx EXCEPT !.calls[pid] =
                  IF call.key \notin DOMAIN definitions
                  THEN Done(call, Outcome(Schema_stringify(definitions, heap, call.key,
                                                           call.object)))
                  ELSE IF heap[definitions[call.key]].byteLength # Undefined
                  THEN [call EXCEPT !.pc = "write",
                                    !.length = ToInt(heap[definitions[call.key]].byteLength)]
                  ELSE [call EXCEPT !.pc = "compute"]]
  /\ UNCHANGED <<definitions, definitionsById, nextDefinitionId, heap, defineErrors, ret,
                 standalone>>

\* The loop over the fields assigning this.byteLength whether or not every field
\* had a fixed length.
StringifyCompute_alwaysMemo(pid) ==
  /\ cx.op = "calls" /\ cx.calls[pid].pc = "compute"
  /\ LET call == cx.calls[pid]
         r == ByteLengthLoop(heap[definitions[call.key]].fields, call.object, 0, 0, TRUE)
     IN  cx' = [cx EXCEPT !.calls[pid] =
                  IF IsError(r) THEN Done(call, Outcome(r))
                  ELSE [call EXCEPT !.pc = "memo", !.length = r.value]]
  /\ UNCHANGED <<definitions, definitionsById, nextDefinitionId, heap, defineErrors, ret,
                 standalone>>

\* Definition.getByteLength lines 476-486: the loop over the fields
StringifyCompute(pid) ==
  /\ cx.op = "calls" /\ cx.calls[pid].pc = "compute"
  /\ LET call == cx.calls[pid]
         r == ByteLengthLoop(heap[definitions[call.key]].fields, call.object, 0, 0, TRUE)
     IN  cx' = [cx EXCEPT !.calls[pid] =
                  IF IsError(r) THEN Done(call, Outcome(r))
                  ELSE [call EXCEPT !.pc = IF r.fixedByteLength THEN "memo" ELSE "write",
                                    !.length = r.value]]
  /\ UNCHANGED <<definitions, definitionsById, nextDefinitionId, heap, defineErrors, ret,
                 standalone>>

\* Definition.getByteLength line 489: this.byteLength = byteLength
StringifyMemo(pid) ==
  /\ cx.op = "calls" /\ cx.calls[pid].pc = "memo"
  /\ heap' = [heap EXCEPT ![definitions[cx.calls[pid].key]].byteLength =
                 N(cx.calls[pid].length)]
  /\ cx' = [cx EXCEPT !.calls[pid].pc = "write"]
  /\ UNCHANGED <<definitions, definitionsById, nextDefinitionId, defineErrors, ret,
                 standalone>>

\* Schema.stringify lines 592-596: create, idCodec.set, definition.set, toString
StringifyWrite(pid) ==
  /\ cx.op = "calls" /\ cx.calls[pid].pc = "write"
  /\ LET call == cx.calls[pid]
         definition == heap[definitions[call.key]]
         r == Try(IntegerCodec_set(codecs(idType),
                                   StreamView_create(codecs(idType).byteLength
                                                     + call.length),
                                   definition.id, FALSE),
                  LAMBDA withId : Definition_set(definition, withId, call.object))
     IN  cx' = [cx EXCEPT !.calls[pid] =
                  Done(call, IF IsError(r) THEN Outcome(r)
                             ELSE [status |-> "ok", value |-> StreamView_toString(r)])]
  /\ UNCHANGED <<definitions, definitionsById, nextDefinitionId, heap, defineErrors, ret,
                 standalone>>

\* Schema.parse
ParseWhole(pid) ==
  /\ cx.op = "calls" /\ cx.calls[pid].pc = "parse"
  /\ cx' = [cx EXCEPT !.calls[pid] =
              Done(cx.calls[pid],
                   Outcome(Schema_parse(definitionsById, heap, cx.calls[pid].string)))]
  /\ UNCHANGED <<definitions, definitionsById, nextDefinitionId, heap, defineErrors, ret,
                 standalone>>

\* Both calls have returned.
CallsEnd ==
  /\ cx.op = "calls"
  /\ \A pid \in {1, 2} : cx.calls[pid].pc = "done"
  /\ cx' = [op |-> "none"]
  /\ UNCHANGED <<definitions, definitionsById, nextDefinitionId, heap, defineErrors, ret,
                 standalone>>

NextConcurrent ==
  \/ \E input \in DefineInputs : ConcurrentDefine(input[1], input[2])
  \/ \E first \in ConcurrentStringifies,
        second \in ConcurrentStringifies \cup ConcurrentParses :
       CallsBegin(first, second)
  \/ \E pid \in {1, 2} : StringifyLookup(pid)
  \/ \E pid \in {1, 2} : StringifyCompute(pid)
  \/ \E pid \in {1, 2} : StringifyMemo(pid)
  \/ \E pid \in {1, 2} : StringifyWrite(pid)
  \/ \E pid \in {1, 2} : ParseWhole(pid)
  \/ CallsEnd

SpecConcurrent == Init /\ [][NextConcurrent]_vars

(***************************************************************************)
(* Properties of the Schema (Spec).                                        *)
(***************************************************************************)
\* Every key was defined once: no definition was replaced under its key.
DistinctKeys == Cardinality(DOMAIN definitions) = Len(heap)

\* The id a string leads with, as the uint8 id codec reads its first code unit.
LeadingId(string) == IF string[1] > 255 THEN 255 ELSE string[1]

SchemaState == <<definitions, definitionsById, nextDefinitionId, heap>>

\* C1: on a schema whose keys were each defined once, stringify(key, data) of a
\* defined key returns a string, and parse of that string returns {key, data}.
SchemaRoundTrip ==
  (ret.op = "stringify" /\ ret.key \in DOMAIN definitions /\ DistinctKeys)
    => /\ ret.status = "ok"
       /\ Schema_parse(definitionsById, heap, ret.value)
            = [value |-> [key |-> ret.key, data |-> ret.object]]

\* C2: after n defines that all succeeded the definitions carry the ids 1..n in
\* the order they were defined, no two alike and none 0, both tables lead to them,
\* and nextDefinitionId is n + 1.
DefinitionIds ==
  defineErrors = 0 =>
    /\ nextDefinitionId = Len(heap) + 1
    /\ DOMAIN definitionsById = 1..Len(heap)
    /\ \A i \in 1..Len(heap) :
         /\ heap[i].id = N(i)
         /\ heap[i].id # N(0)
         /\ definitionsById[i] = i
         /\ \A j \in 1..Len(heap) : heap[i].id = heap[j].id => i = j
    /\ \A key \in DOMAIN definitions : heap[definitions[key]].key = key

DefinitionIdsWitness ==
  /\ defineErrors = 0
  /\ Len(heap) = 2
  /\ heap[2].id = N(2)
  /\ nextDefinitionId = 3

\* C3: stringify of a key that is not defined throws and returns no string, and
\* leaves both tables, the definitions and nextDefinitionId as they were.
StringifyUndefinedKey ==
  /\ []((ret.op = "stringify" /\ ret.key \notin DOMAIN definitions)
          => (ret.status = "throw" /\ "value" \notin DOMAIN ret))
  /\ [][(ret'.op = "stringify" /\ ret'.key \notin DOMAIN definitions)
          => UNCHANGED SchemaState]_vars

StringifyUndefinedKeyWitness ==
  /\ ret.op = "stringify"
  /\ ret.key = "missing"
  /\ ret.status = "throw"
  /\ Len(heap) = 2

\* C4: parse of a string whose leading id is not defined, 0 and the ids above the
\* highest one included, throws, and leaves both tables, the definitions and
\* nextDefinitionId as they were.
ParseUndefinedId ==
  /\ []((ret.op = "parse" /\ ret.string # <<>>
           /\ LeadingId(ret.string) \notin DOMAIN definitionsById)
          => (ret.status = "throw" /\ "value" \notin DOMAIN ret))
  /\ [][(ret'.op = "parse" /\ ret'.string # <<>>
           /\ LeadingId(ret'.string) \notin DOMAIN definitionsById)
          => UNCHANGED SchemaState]_vars

ParseUndefinedIdWitness ==
  /\ ret.op = "parse"
  /\ ret.string \in {<<0>>, <<3>>}
  /\ ret.status = "throw"
  /\ DOMAIN definitionsById = {1, 2}

\* The bytes one codec writes for one value into a stream view of its own.
EncodeAlone(codec, value, littleEndian, byteLength) ==
  Bind(AnyCodec_set(codec, StreamView_create(byteLength), value, littleEndian),
       LAMBDA s : SubSeq(s.bytes, 1, s.byteOffset))

\* The encodings of the fields from field i on, each made on its own, end to end.
RECURSIVE FieldsLayout(_, _, _, _)
FieldsLayout(definition, object, i, byteLength) ==
  IF i > Len(definition.fields) THEN <<>>
  ELSE EncodeAlone(definition.fields[i].codec, Prop(object, definition.fields[i].key),
                   definition.littleEndian = Bool(TRUE), byteLength)
         \o FieldsLayout(definition, object, i + 1, byteLength)

\* Each field's own segment, decoded on its own, is the value parse returns for it.
SegmentsDecode(definition, object, data, byteLength) ==
  \A i \in 1..Len(definition.fields) :
    LET field == definition.fields[i]
        segment == EncodeAlone(field.codec, Prop(object, field.key),
                               definition.littleEndian = Bool(TRUE), byteLength)
        r == AnyCodec_get(field.codec, [bytes |-> segment, byteOffset |-> 0],
                          definition.littleEndian = Bool(TRUE))
    IN  ~IsError(r) /\ r.value = data[field.key]

\* C5: the string stringify returns is the definition's id in the id codec's
\* width followed by the encoding of each field in the order the fields were
\* declared, with nothing between them, and parse reads the fields back in that
\* order.
WireLayout ==
  (ret.op = "stringify" /\ ret.status = "ok") =>
    LET definition == heap[definitions[ret.key]]
        parsed == Schema_parse(definitionsById, heap, ret.value)
    IN  /\ ret.value = <<ToInt(definition.id)>>
                         \o FieldsLayout(definition, ret.object, 1, Len(ret.value))
        /\ ~IsError(parsed)
        /\ parsed.value.key = ret.key
        /\ DOMAIN parsed.value.data = {definition.fields[i].key :
                                         i \in 1..Len(definition.fields)}
        /\ SegmentsDecode(definition, ret.object, parsed.value.data, Len(ret.value))

WireLayoutWitness ==
  /\ ret.op = "stringify"
  /\ ret.status = "ok"
  /\ ret.key = "position"
  /\ Len(heap[definitions[ret.key]].fields) = 3
  /\ Len(ret.value) = 10

(***************************************************************************)
(* Properties of a Definition (SpecDefinition).                            *)
(***************************************************************************)
\* C6: stringify of a Definition returns a string, arrays and boolean arrays
\* between fixed-width fields included, and parse of that string returns the
\* object that was encoded.
DefinitionRoundTrip ==
  ret.op = "stringify" =>
    /\ ret.status = "ok"
    /\ ~IsError(Definition_parse(standalone, ret.value))
    /\ Definition_parse(standalone, ret.value).value = ret.object

FixedWidth(fields) == \A i \in 1..Len(fields) : HasByteLength(fields[i].codec)

\* The byte length of an object under the fields from field i on, field by field.
RECURSIVE SumOfByteLengths(_, _, _)
SumOfByteLengths(fields, object, i) ==
  IF i > Len(fields) THEN 0
  ELSE (IF HasByteLength(fields[i].codec) THEN fields[i].codec.byteLength
        ELSE AnyCodec_getByteLength(fields[i].codec, Prop(object, fields[i].key)).value)
       + SumOfByteLengths(fields, object, i + 1)

Cached(definition) == definition # Undefined /\ definition.byteLength # Undefined

\* C7: only a Definition whose fields are all fixed-width caches its byte length;
\* the cached number is the sum of the field widths, it is what getByteLength
\* returns whatever the argument, and it never changes; a Definition with a
\* dynamic field never caches and getByteLength computes from its argument.
ByteLengthMemo ==
  /\ [](standalone # Undefined =>
          /\ Cached(standalone) =>
               /\ FixedWidth(standalone.fields)
               /\ standalone.byteLength = N(SumOfByteLengths(standalone.fields, <<>>, 1))
          /\ (ret.op = "getByteLength" /\ ret.status = "ok") =>
               /\ Cached(standalone) <=> FixedWidth(standalone.fields)
               /\ ret.value = SumOfByteLengths(standalone.fields, ret.object, 1)
               /\ Cached(standalone) => N(ret.value) = standalone.byteLength)
  /\ [][(Cached(standalone) /\ ret'.op # "jettison.define")
          => standalone' = standalone]_vars

ByteLengthMemoWitness ==
  /\ ret.op = "getByteLength"
  /\ ret.object = <<>>
  /\ ret.status = "ok"
  /\ ret.value = 3
  /\ Cached(standalone)

(***************************************************************************)
(* Properties of the codecs (SpecCodec).                                   *)
(***************************************************************************)
\* The range of each integer type.
IntegerRange(type) ==
  CASE type = "int8" -> [min |-> N(-128), max |-> N(127)]
    [] type = "int16" -> [min |-> N(-32768), max |-> N(32767)]
    [] type = "int32" -> [min |-> Num(-32768, 0), max |-> Num(32767, 65535)]
    [] type = "uint8" -> [min |-> N(0), max |-> N(255)]
    [] type = "uint16" -> [min |-> N(0), max |-> N(65535)]
    [] type = "uint32" -> [min |-> N(0), max |-> Num(65535, 65535)]

InRange(value, type) ==
  /\ ~NumLess(value, IntegerRange(type).min)
  /\ ~NumLess(IntegerRange(type).max, value)

Clamped(value, type) ==
  IF NumLess(value, IntegerRange(type).min) THEN IntegerRange(type).min
  ELSE IF NumLess(IntegerRange(type).max, value) THEN IntegerRange(type).max
  ELSE value

\* C8: set of an integer codec never throws, whatever the number, and writes the
\* bytes it writes for the number clamped to the type's range.
IntegerSetClamps ==
  (cx.op = "set" /\ cx.type \in IntegerTypes) =>
    /\ cx.status = "ok"
    /\ cx.streamView.byteOffset = codecs(cx.type).byteLength
    /\ cx.streamView = IntegerCodec_set(codecs(cx.type),
                                        StreamView_create(codecs(cx.type).byteLength),
                                        Clamped(cx.value, cx.type), cx.littleEndian)

IntegerSetClampsWitness ==
  /\ cx.op = "set"
  /\ cx.type = "int16"
  /\ ~InRange(cx.value, cx.type)
  /\ NumLess(N(0), cx.value)
  /\ cx.status = "ok"

Reverse(s) == [i \in 1..Len(s) |-> s[Len(s) + 1 - i]]

\* The two's complement of a number in byteLength bytes, in the byte order asked.
TwosComplement(value, byteLength, littleEndian) ==
  LET bytes == SubSeq(<<(value.hi % 65536) \div 256, value.hi % 256,
                        value.lo \div 256, value.lo % 256>>, 5 - byteLength, 4)
  IN  IF littleEndian THEN Reverse(bytes) ELSE bytes

\* C9: get after set of an integer codec returns the number that was set when the
\* number is in the type's range, and the bytes between are the number's two's
\* complement in the byte order asked.
IntegerRoundTrip ==
  (cx.op = "get" /\ cx.type \in IntegerTypes /\ InRange(cx.value, cx.type)) =>
    /\ cx.status = "ok"
    /\ cx.out = cx.value
    /\ cx.written.bytes = TwosComplement(cx.value, codecs(cx.type).byteLength,
                                         cx.littleEndian)

IntegerRoundTripWitness ==
  /\ cx.op = "get"
  /\ cx.type = "int32"
  /\ cx.value = Num(-32768, 0)
  /\ cx.littleEndian
  /\ cx.status = "ok"
  /\ cx.written.bytes = <<0, 0, 0, 128>>

\* A length in groups of 7 bits, low group first, bit 7 set on all but the last.
RECURSIVE Varint(_)
Varint(n) == IF n < 128 THEN <<n>> ELSE <<128 + (n % 128)>> \o Varint(n \div 128)

BitOf(values, i) == IF i <= LengthOf(values) /\ Truthy(values.v[i]) THEN 1 ELSE 0

\* The flags eight to a byte, the first flag of each eight in bit 0.
PackedFlags(values) ==
  [b \in 1..CeilDiv(LengthOf(values), 8) |->
     BitOf(values, 8 * b - 7) + 2 * BitOf(values, 8 * b - 6)
     + 4 * BitOf(values, 8 * b - 5) + 8 * BitOf(values, 8 * b - 4)
     + 16 * BitOf(values, 8 * b - 3) + 32 * BitOf(values, 8 * b - 2)
     + 64 * BitOf(values, 8 * b - 1) + 128 * BitOf(values, 8 * b)]

\* C10: set of the boolean array codec writes the number of flags as a varint and
\* then ceil(n / 8) bytes holding the flags low bit first with the unused high
\* bits 0, the same bytes whichever byte order is asked; for an empty or absent
\* array it writes the one byte 0.
BooleanArrayLayout ==
  (cx.op = "set" /\ cx.type = "booleanArray") =>
    /\ cx.status = "ok"
    /\ cx.streamView.byteOffset = Len(Varint(LengthOf(cx.value)))
                                    + CeilDiv(LengthOf(cx.value), 8)
    /\ SubSeq(cx.streamView.bytes, 1, cx.streamView.byteOffset)
         = Varint(LengthOf(cx.value)) \o PackedFlags(cx.value)
    /\ \A i \in cx.streamView.byteOffset + 1 .. Len(cx.streamView.bytes) :
         cx.streamView.bytes[i] = 0
    /\ cx.streamView = BooleanArrayCodec_set(StreamView_create(Len(cx.streamView.bytes)),
                                             cx.value, ~cx.littleEndian)
    /\ LengthOf(cx.value) = 0
         => SubSeq(cx.streamView.bytes, 1, cx.streamView.byteOffset) = <<0>>

BooleanArrayLayoutWitness ==
  /\ cx.op = "set"
  /\ cx.type = "booleanArray"
  /\ LengthOf(cx.value) = 255
  /\ cx.status = "ok"
  /\ SubSeq(cx.streamView.bytes, 1, 2) = <<255, 1>>
  /\ cx.streamView.bytes[34] = 127

\* The number a string's leading 7-bit groups spell, low group first, from byte i.
RECURSIVE VarintValue(_, _)
VarintValue(string, i) ==
  IF string[i] < 128 THEN string[i]
  ELSE (string[i] - 128) + 128 * VarintValue(string, i + 1)

\* The bytes a length and its flags take in a string.
FlagsExtent(string) ==
  Len(Varint(VarintValue(string, 1))) + CeilDiv(VarintValue(string, 1), 8)

\* Flag i (from 1) of a received string: bit (i - 1) mod 8 of its flag byte.
FlagAt(string, i) ==
  (string[Len(Varint(VarintValue(string, 1))) + CeilDiv(i, 8)] \div 2 ^ ((i - 1) % 8)) % 2 = 1

\* A received string with the bits past the length in its last flag byte cleared.
PaddingCleared(string) ==
  [i \in 1..Len(string) |->
     IF i = FlagsExtent(string) /\ VarintValue(string, 1) % 8 # 0
     THEN string[i] % 2 ^ (VarintValue(string, 1) % 8)
     ELSE string[i]]

\* C11: get of the boolean array codec reads the length n, then ceil(n / 8) bytes
\* and no more, and returns n booleans in the order of the bits; the bits past n
\* in the last byte do not matter; and get after set returns the array set.
BooleanArrayGet ==
  /\ (cx.op = "get" /\ cx.type = "booleanArray" /\ cx.value.t = "array") =>
        /\ cx.status = "ok"
        /\ cx.out = cx.value
        /\ cx.streamView.byteOffset = cx.written.byteOffset
  /\ (cx.op = "read" /\ cx.type = "booleanArray"
        /\ FlagsExtent(cx.string) <= Len(cx.string)) =>
        /\ cx.status = "ok"
        /\ cx.streamView.byteOffset = FlagsExtent(cx.string)
        /\ cx.out = Arr([i \in 1..VarintValue(cx.string, 1) |->
                           Bool(FlagAt(cx.string, i))])
        /\ BooleanArrayCodec_get([bytes |-> PaddingCleared(cx.string), byteOffset |-> 0],
                                 cx.littleEndian).value = cx.out

BooleanArrayGetWitness ==
  /\ cx.op = "read"
  /\ cx.type = "booleanArray"
  /\ cx.string = <<3, 253>>
  /\ cx.status = "ok"
  /\ cx.out = Arr(<<Bool(TRUE), Bool(FALSE), Bool(TRUE)>>)

\* The five 7-bit groups of a 32-bit length, low group first.
Groups(length) ==
  <<length.lo % 128, (length.lo \div 128) % 128,
    (length.lo \div 16384) + 4 * (length.hi % 32),
    (length.hi \div 32) % 128, length.hi \div 4096>>

\* The groups of a length up to its highest group that is not 0, the first at least.
GroupCount(length) ==
  IF \A i \in 2..5 : Groups(length)[i] = 0 THEN 1
  ELSE CHOOSE k \in 2..5 :
         /\ Groups(length)[k] # 0
         /\ \A i \in (k + 1)..5 : Groups(length)[i] = 0

\* The groups with the high bit set on every byte but the last.
LengthBytes(length) ==
  [i \in 1..GroupCount(length) |->
     IF i < GroupCount(length) THEN 128 + Groups(length)[i] ELSE Groups(length)[i]]

\* C12: _setLength writes a length from 0 to 2^32 - 1 as its 7-bit groups, low
\* group first, the high bit set on every byte but the last, 0 as the byte 0; and
\* _getLength on those bytes returns the length.
LengthRoundTrip ==
  /\ cx.op \in {"setLength", "getLength"} => cx.status = "ok"
  /\ cx.op = "setLength" =>
        /\ cx.streamView.byteOffset = GroupCount(cx.length)
        /\ SubSeq(cx.streamView.bytes, 1, cx.streamView.byteOffset) = LengthBytes(cx.length)
  /\ cx.op = "getLength" => cx.out = cx.length

\* The sum of the bytes the boolean arrays from element i on take.
RECURSIVE SumOfFlagsByteLengths(_, _)
SumOfFlagsByteLengths(values, i) ==
  IF i > LengthOf(values) THEN 0
  ELSE FlagsByteLength(values.v[i]) + SumOfFlagsByteLengths(values, i + 1)

\* C13: getByteLength of an array codec is 4 + length * elementWidth when the
\* element codec has a fixed width, 4 for an empty or absent array included, and
\* 4 plus the sum of the elements' lengths when it has not.
ArrayByteLength ==
  (cx.op = "getByteLength" /\ cx.codec.kind = "array") =>
    /\ cx.status = "ok"
    /\ cx.out = IF HasByteLength(cx.codec.valueCodec)
                THEN 4 + LengthOf(cx.value) * cx.codec.valueCodec.byteLength
                ELSE 4 + SumOfFlagsByteLengths(cx.value, 1)

\* The fields of a definition that hold an array which, in an object, is empty or
\* absent.
EmptyArrayFields(definition, object) ==
  {i \in 1..Len(definition.fields) :
     /\ definition.fields[i].codec.kind = "array"
     /\ LengthOf(Prop(object, definition.fields[i].key)) = 0}

\* C14: stringify of an object whose array field is empty or absent returns a
\* string, and parse of that string gives the empty array for the field.
EmptyArrayStringify ==
  (ret.op = "stringify" /\ EmptyArrayFields(standalone, ret.object) # {}) =>
    /\ ret.status = "ok"
    /\ ~IsError(Definition_parse(standalone, ret.value))
    /\ \A i \in EmptyArrayFields(standalone, ret.object) :
         Definition_parse(standalone, ret.value).value[standalone.fields[i].key] = Arr(<<>>)

\* The UTF-8 form of the strings of the model.
Utf8Of(value) ==
  CASE value = Str(<<>>) -> <<>>
    [] value = Str(<<97>>) -> <<97>>
    [] value = Str(<<104, 111, 100, 248, 114>>) -> <<104, 111, 100, 195, 184, 114>>
    [] value = Str(<<8364, 33>>) -> <<226, 130, 172, 33>>
    [] value = Str(<<128512>>) -> <<240, 159, 152, 128>>

VarintLengthPrefix ==
  (cx.op = "set" /\ cx.type = "string" /\ cx.value.t = "string") =>
    /\ cx.status = "ok"
    /\ cx.streamView.byteOffset
         = Len(Varint(Len(Utf8Of(cx.value)))) + Len(Utf8Of(cx.value))
    /\ SubSeq(cx.streamView.bytes, 1, cx.streamView.byteOffset)
         = Varint(Len(Utf8Of(cx.value))) \o Utf8Of(cx.value)

\* A string that is absent or empty.
NoCharacters(value) == value = Undefined \/ value = Str(<<>>)

\* C17: for a string that is absent or empty getByteLength and set of the string
\* codec both return, set writes a length of 0 and nothing after it, and get reads
\* the empty string back.
AbsentString ==
  /\ (cx.op = "getByteLength" /\ cx.codec.kind = "string" /\ NoCharacters(cx.value)) =>
        /\ cx.status = "ok"
        /\ cx.out = 4
  /\ (cx.op = "set" /\ cx.type = "string" /\ NoCharacters(cx.value)) =>
        /\ cx.status = "ok"
        /\ cx.streamView = [bytes |-> <<0, 0, 0, 0>>, byteOffset |-> 4]
  /\ (cx.op = "get" /\ cx.type = "string" /\ NoCharacters(cx.value)) =>
        /\ cx.status = "ok"
        /\ cx.out = Str(<<>>)

\* The names a field's type may be.
SupportedTypes ==
  {"boolean", "float32", "float64", "int8", "int16", "int32", "uint8", "uint16",
   "uint32", "booleanArray", "string", "array"}

\* The field options that are to be refused.
Refused(options) ==
  \/ options.key \in {NoString, ""}
  \/ options.type \notin SupportedTypes
  \/ /\ options.type = "array"
     /\ (options.valueType \in {"array", "string"}
           \/ options.valueType \notin SupportedTypes)

FloatByteLength(type) == IF type = "float32" THEN 4 ELSE 8

\* The bytes of a float, most significant first: the sign bit, the exponent
\* field all ones or all zeros, and the significand with nothing or only its top
\* bit set.
SpecialBytes(type, sign, exponentOnes, topBit) ==
  [n \in 1..FloatByteLength(type) |->
     IF n = 1 THEN 128 * sign + (IF exponentOnes THEN 127 ELSE 0)
     ELSE IF n = 2
     THEN IF type = "float32"
          THEN (IF exponentOnes THEN 128 ELSE 0) + (IF topBit THEN 64 ELSE 0)
          ELSE (IF exponentOnes THEN 240 ELSE 0) + (IF topBit THEN 8 ELSE 0)
     ELSE 0]

FieldsValue(p, signed, exponent, significand) ==
  IF exponent = 0
  THEN IF significand = {} THEN Zero(signed)
       ELSE Float("finite", signed,
                  Shift(significand, 1 - p.exponentBias - p.numSignificandBits))
  ELSE Float("finite", signed,
             Shift(significand \cup {p.numSignificandBits},
                   exponent - p.exponentBias - p.numSignificandBits))

\* C20: get of the bytes _floatPartsToByteArray packed returns NaN when the
\* exponent is all ones and the significand is not 0, whatever the sign; the
\* infinity of the sign when the exponent is all ones and the significand is 0;
\* and otherwise the number with the sign, the exponent and the significand
\* that were packed.
FloatGet ==
  cx.op = "unpack" =>
    cx.out = IF cx.exponent = FloatPolyfill(cx.byteLength).exponentMax
             THEN IF cx.significand # {} THEN NaN ELSE Infinity(cx.signed)
             ELSE FieldsValue(FloatPolyfill(cx.byteLength), cx.signed, cx.exponent,
                              cx.significand)

FloatGetWitness ==
  /\ cx.op = "unpack"
  /\ cx.byteLength = 4
  /\ cx.signed = 1
  /\ cx.exponent = 255
  /\ cx.significand = {0}
  /\ cx.littleEndian
  /\ cx.byteOffset = 1
  /\ cx.bytes = <<0, 1, 0, 128, 255>>
  /\ cx.out = NaN

\* C21: set of a finite number whose magnitude with the rounding constant added
\* reaches 2^(exponentBias + 1) hands the packer the fields of the infinity of its
\* sign; for every finite number the fields it hands over have an exponent from 0
\* to exponentMax and a significand from 0 to below 2^numSignificandBits, and are
\* packed into the sign, exponent and significand places without overlap.
FloatFieldsInRange ==
  (cx.op = "floatSet" /\ cx.value.class = "finite") =>
    LET p == FloatPolyfill(cx.byteLength)
        sum == AddBits(cx.value.bits,
                       Shift(p.roundTo,
                             IF MaxOf(cx.value.bits) + p.exponentBias >= 1
                             THEN MaxOf(cx.value.bits) ELSE 1 - p.exponentBias))
    IN  /\ cx.parts.signed = cx.value.sign
        /\ cx.parts.biasedExponent \in 0..p.exponentMax
        /\ \A k \in cx.parts.significand : k < p.numSignificandBits
        /\ MaxOf(sum) >= p.exponentBias + 1 =>
              /\ cx.parts.biasedExponent = p.exponentMax
              /\ cx.parts.significand = {}
              /\ (IF cx.littleEndian THEN Reverse(cx.bytes) ELSE cx.bytes)
                   = SpecialBytes(IF cx.byteLength = 4 THEN "float32" ELSE "float64",
                                  cx.value.sign, TRUE, FALSE)
        /\ FloatFields(p, cx.bytes, 0, cx.littleEndian)
             = [signed |-> cx.parts.signed, exponent |-> cx.parts.biasedExponent,
                significand |-> {k \in cx.parts.significand : k >= 0}]

\* 2^128 - 2^100 as a float32: below 2^128, and 2^128 with the rounding constant.
FloatFieldsInRangeWitness ==
  /\ cx.op = "floatSet"
  /\ cx.byteLength = 4
  /\ cx.value = Float("finite", 1, 100..127)
  /\ ~cx.littleEndian
  /\ cx.parts = [signed |-> 1, biasedExponent |-> 255, significand |-> {}]
  /\ cx.bytes = <<255, 128, 0, 0>>

\* C22: set of the polyfill writes for every number the fields the platform's
\* DataView writes (the number rounded to the nearest of the format, ties to
\* even), get of the polyfill returns the number those fields stand for, and a
\* float64 comes back as the number that was set.
FloatMatchesNative ==
  /\ (cx.op \in {"floatSet", "floatGet"} /\ cx.value.class = "finite") =>
       LET p == FloatPolyfill(cx.byteLength)
           native == NativeFiniteParts(p, cx.value)
       IN  /\ FloatFields(p, cx.bytes, 0, cx.littleEndian)
                = [signed |-> native.signed, exponent |-> native.biasedExponent,
                   significand |-> native.significand]
           /\ cx.op = "floatGet" =>
                 cx.out = IF native.biasedExponent = p.exponentMax
                          THEN Infinity(native.signed)
                          ELSE FieldsValue(p, native.signed, native.biasedExponent,
                                           native.significand)
  /\ (cx.op = "floatGet" /\ cx.byteLength = 8) => cx.out = cx.value

(***************************************************************************)
(* Properties of StreamView (SpecCodec).                                   *)
(***************************************************************************)
\* C23: toString of a buffer is a string with one code unit for every byte, each
\* the byte at its place, and createFromString of that string is a stream view
\* with the bytes of the buffer and its cursor at 0.
StringOfBytes ==
  cx.op = "toString" =>
    /\ Len(cx.string) = Len(cx.written.bytes)
    /\ \A i \in 1..Len(cx.string) : cx.string[i] = cx.written.bytes[i]
    /\ ~IsError(cx.back)
    /\ cx.back.bytes = cx.written.bytes
    /\ cx.back.byteOffset = 0

StringOfBytesWitness ==
  /\ cx.op = "toString"
  /\ cx.written.bytes = <<0, 0, 0, 0, 0, 0, 248, 127>>
  /\ cx.written.byteOffset = 8
  /\ cx.string = <<0, 0, 0, 0, 0, 0, 248, 127>>
  /\ cx.back.byteOffset = 0

Uncached(h) == [ref \in DOMAIN h |-> [h[ref] EXCEPT !.byteLength = Undefined]]

\* What a call returns or throws when no other call is running.
Alone(call, h) ==
  IF call.kind = "parse" THEN Outcome(Schema_parse(definitionsById, h, call.string))
  ELSE Outcome(Schema_stringify(definitions, h, call.key, call.object))

\* C25: with the defines done, each of two stringify or parse calls whose steps
\* interleave returns or throws what it does when run alone, with the byte
\* lengths cached so far or none; a cached byte length is only ever the sum of
\* the fixed byte lengths of the Definition's fields.
CallsAsAlone ==
  /\ cx.op = "calls" =>
       \A pid \in {1, 2} :
         cx.calls[pid].pc = "done" =>
           /\ cx.calls[pid].result = Alone(cx.calls[pid], heap)
           /\ cx.calls[pid].result = Alone(cx.calls[pid], Uncached(heap))
  /\ \A ref \in DOMAIN heap :
       heap[ref].byteLength # Undefined =>
         /\ FixedWidth(heap[ref].fields)
         /\ heap[ref].byteLength = N(SumOfByteLengths(heap[ref].fields, <<>>, 1))

\* Two stringify calls of the same fixed-width Definition that both found no
\* byteLength cached, both assigned it, and both returned.
CallsAsAloneWitness ==
  /\ cx.op = "calls"
  /\ \A pid \in {1, 2} :
       /\ cx.calls[pid].kind = "stringify"
       /\ cx.calls[pid].key = "spawn"
       /\ cx.calls[pid].pc = "done"
       /\ cx.calls[pid].result.status = "ok"
  /\ cx.calls[1].object # cx.calls[2].object
  /\ "spawn" \in DOMAIN definitions
  /\ heap[definitions["spawn"]].byteLength = N(3)

(***************************************************************************)
(* Properties of the buffer stringify allocates (SpecDefinition).          *)
(***************************************************************************)
\* C26: stringify of a Definition returns, and the byte length getByteLength
\* reports for the object is the number of bytes set writes for it (the cursor
\* after set into a buffer with room to spare) and the length of the string:
\* the buffer is filled to its end and no further.
BufferFilled ==
  ret.op = "stringify" =>
    /\ ~IsError(Definition_getByteLength(standalone, ret.object))
    /\ ~IsError(Definition_set(standalone, StreamView_create(64), ret.object))
    /\ Definition_set(standalone, StreamView_create(64), ret.object).byteOffset
         = Definition_getByteLength(standalone, ret.object).value
    /\ ret.status = "ok"
    /\ Len(ret.value) = Definition_getByteLength(standalone, ret.object).value

(***************************************************************************)
(* Properties of BooleanArrayCodec.getByteLength (SpecCodec).              *)
(***************************************************************************)
\* C27: getByteLength of the boolean array codec returns, for an array of n
\* flags, the bytes of the length (one for every 7 bits of n, at least one) plus
\* one byte for every 8 flags, which are the bytes set writes for the array.
BooleanArrayByteLength ==
  (cx.op = "getByteLength" /\ cx.codec = BooleanArrayCodec) =>
    /\ cx.status = "ok"
    /\ cx.out = Len(Varint(LengthOf(cx.value))) + CeilDiv(LengthOf(cx.value), 8)
    /\ cx.out = BooleanArrayCodec_set(StreamView_create(64), cx.value, FALSE).byteOffset

(***************************************************************************)
(* Properties of Schema.define (Spec).                                     *)
(***************************************************************************)
\* C28: a define that throws leaves the Schema as it was, nextDefinitionId
\* included, so after any defines, thrown or not, the k definitions that were
\* registered carry the ids 1..k in the order they were registered.
FailedDefineKeepsIds ==
  /\ [][(ret'.op = "define" /\ ret'.status = "throw" /\ defineErrors' # defineErrors)
          => UNCHANGED SchemaState]_vars
  /\ [](/\ nextDefinitionId = Len(heap) + 1
        /\ \A i \in 1..Len(heap) : heap[i].id = N(i) /\ definitionsById[i] = i)

\* C29: after any defines, also of a key defined before, every Definition the
\* by-id table leads to is the Definition the by-key table holds under its key.
TablesAgree ==
  \A id \in DOMAIN definitionsById :
    /\ heap[definitionsById[id]].key \in DOMAIN definitions
    /\ definitions[heap[definitionsById[id]].key] = definitionsById[id]

(***************************************************************************)
(* Properties of a Schema with many definitions (SpecMany).                *)
(***************************************************************************)
\* C30: after any number of defines, more than 2^8 - 1 too, the id byte
\* stringify writes for a key is the id of the key's Definition, and parse of the
\* string returns that key with the object that was encoded.
IdBytesOwn ==
  (ret.op = "stringify" /\ ret.key \in DOMAIN definitions) =>
    /\ ret.status = "ok"
    /\ N(LeadingId(ret.value)) = heap[definitions[ret.key]].id
    /\ ret.parsed = [status |-> "ok",
                     value |-> [key |-> ret.key, data |-> ret.object]]

====
